---- MODULE Spec2Model ----
(***************************************************************************)
(* A model of the market-data pipeline of this repository:                 *)
(*   - BulkExporter.py : the freshness-aware ingestion of daily and hourly *)
(*     price series into the price tables, with the per-asset watermarks;  *)
(*   - GroupSelector.py: the ranked group selection and the membership     *)
(*     differ with its JOINED/LEFT ledger.                                 *)
(* Time is counted in whole seconds since the epoch; provider timestamps   *)
(* are epoch milliseconds, as in the market_chart payload.  A database     *)
(* transaction (one "with engine.begin()" block) is one action.            *)
(***************************************************************************)
EXTENDS Integers, Sequences, FiniteSets, TLC

VARIABLES
    now,                        \* the wall clock, datetime.now(timezone.utc)
    crypto_asset,               \* table crypto_asset: asset id -> row
    crypto_asset_price_daily,   \* table crypto_asset_price_daily: set of rows
    crypto_asset_price_hourly,  \* table crypto_asset_price_hourly: set of rows
    crypto_group,               \* table crypto_group: tag -> row
    crypto_asset_group,         \* table crypto_asset_group: set of rows
    crypto_asset_group_history, \* table crypto_asset_group_history: rows in insertion order
    job_run_log,                \* table job_run_log: job name -> row
    pc,                         \* run_bulk_import: "idle" or "loop"
    assets,                     \* run_bulk_import: the list read in step 1
    idx,                        \* run_bulk_import: position of the for loop
    summary,                    \* run_bulk_import: the summary being built
    txs,                        \* number of asset transactions granted so far
    last_env,                   \* what the latest loop pass met: the provider's answers, the fault
    group_runs,                 \* number of grouping runs started so far
    last_markets,               \* what the latest grouping run met: the snapshot answers, the fault
    call                        \* a call of one function on its own: arguments and result

vars == <<now, crypto_asset, crypto_asset_price_daily, crypto_asset_price_hourly,
          crypto_group, crypto_asset_group, crypto_asset_group_history,
          job_run_log, pc, assets, idx, summary, txs, last_env, group_runs, last_markets,
          call>>

\* what the ingestion path never writes, and what the grouping path never writes
grouping_vars == <<crypto_group, crypto_asset_group, crypto_asset_group_history,
                   group_runs, last_markets, call>>
ingestion_vars == <<crypto_asset_price_daily, crypto_asset_price_hourly,
                    pc, assets, idx, summary, txs, last_env>>

----------------------------------------------------------------------------
(* config.py *)

VS_CURRENCY == "usd"
BULK_DAYS_BACK == 365
HOURLY_MAX_DAYS_BACK == 90
ENABLE_HOURLY == TRUE
\* the two thresholds are 2.5 and 23.0 hours: kept in tenths of an hour
HOURLY_MIN_AGE_HOURS_X10 == 25
DAILY_MIN_AGE_HOURS_X10 == 230
BULK_IMPORT_JOB_NAME == "bulk_import"
GROUP_SELECTOR_JOB_NAME == "group_selector"
TOP15_TAG == "TOP15"
MEME_TAG == "MEME_TOP5"
L1_TAG == "L1_BLUECHIP"
DEFI_TAG == "DEFI_BLUECHIP"

----------------------------------------------------------------------------
(* Values *)

\* Python's None, for a nullable timestamp or number (all real ones are >= 0)
None == 0 - 1
\* Python's None where a string is expected (hourly_error)
NoError == "None"

SecondsPerHour == 3600
SecondsPerDay == 86400
MillisPerSecond == 1000

Min(a, b) == IF a <= b THEN a ELSE b
Max(a, b) == IF a >= b THEN a ELSE b

\* str.upper() on the currency code
Upper(s) == IF s = "usd" THEN "USD" ELSE s

\* datetime.fromtimestamp(ts / 1000.0, tz=utc), to the second
FromTimestampMs(ts_ms) == ts_ms \div MillisPerSecond

\* datetime.date() of a UTC instant: the number of its calendar day
DateOf(ts) == ts \div SecondsPerDay

----------------------------------------------------------------------------
(* Row Normalizer *)

RECURSIVE ZipRowsCapTimestamp(_, _, _)
\* (mutation) the instant of a row is the one of its market-cap entry
ZipRowsCapTimestamp(prices, market_caps, volumes) ==
    IF prices = <<>> \/ market_caps = <<>> \/ volumes = <<>> THEN <<>>
    ELSE <<[observed_at    |-> FromTimestampMs(Head(market_caps)[1]),
            price          |-> Head(prices)[2],
            market_cap_usd |-> Head(market_caps)[2],
            volume_24h_usd |-> Head(volumes)[2]]>>
         \o ZipRowsCapTimestamp(Tail(prices), Tail(market_caps), Tail(volumes))

RECURSIVE ZipRows(_, _, _)
\* the zip of the three sequences, truncated to the shortest, one row each
ZipRows(prices, market_caps, volumes) ==
    IF prices = <<>> \/ market_caps = <<>> \/ volumes = <<>> THEN <<>>
    ELSE <<[observed_at    |-> FromTimestampMs(Head(prices)[1]),
            price          |-> Head(prices)[2],
            market_cap_usd |-> Head(market_caps)[2],
            volume_24h_usd |-> Head(volumes)[2]]>>
         \o ZipRows(Tail(prices), Tail(market_caps), Tail(volumes))

RECURSIVE InsertByObservedAt(_, _)
\* r placed after every row whose observed_at is <= its own (a stable sort step)
InsertByObservedAt(sorted, r) ==
    IF sorted = <<>> THEN <<r>>
    ELSE IF Head(sorted).observed_at <= r.observed_at
         THEN <<Head(sorted)>> \o InsertByObservedAt(Tail(sorted), r)
         ELSE <<r>> \o sorted

RECURSIVE SortByObservedAt(_)
\* list.sort(key=lambda r: r["observed_at"]): stable, ascending
SortByObservedAt(rows) ==
    IF rows = <<>> THEN <<>>
    ELSE InsertByObservedAt(SortByObservedAt(SubSeq(rows, 1, Len(rows) - 1)),
                            rows[Len(rows)])

parse_market_chart_to_rows(payload) ==
    SortByObservedAt(ZipRows(payload.prices, payload.market_caps, payload.total_volumes))

RECURSIVE CollapseByDateFirstWins(_, _)
\* (mutation) the first point of a date is kept
CollapseByDateFirstWins(rows, by_date) ==
    IF rows = <<>> THEN by_date
    ELSE LET r   == Head(rows)
             hit == {i \in 1..Len(by_date) :
                        DateOf(by_date[i].observed_at) = DateOf(r.observed_at)}
         IN  CollapseByDateFirstWins(Tail(rows),
                 IF hit = {} THEN Append(by_date, r) ELSE by_date)

RECURSIVE CollapseByDate(_, _)
\* by_date[d] = r for each row in turn: an ordered dict keeps the place of a
\* date's first row and the value of its last one
CollapseByDate(rows, by_date) ==
    IF rows = <<>> THEN by_date
    ELSE LET r   == Head(rows)
             hit == {i \in 1..Len(by_date) :
                        DateOf(by_date[i].observed_at) = DateOf(r.observed_at)}
         IN  CollapseByDate(Tail(rows),
                 IF hit = {} THEN Append(by_date, r)
                 ELSE [by_date EXCEPT ![CHOOSE i \in hit : TRUE] = r])

\* the lookback sent to the provider for each grain
DailyLookback(days) == Max(1, Min(days, BULK_DAYS_BACK))
\* (mutation) the hourly call is capped like the daily one
HourlyLookbackDailyCap(days) == Max(1, Min(days, BULK_DAYS_BACK))

HourlyLookback(days) == Max(1, Min(days, HOURLY_MAX_DAYS_BACK))

\* fetch_daily_series, given what the provider answered
fetch_daily_series(payload) ==
    SortByObservedAt(CollapseByDate(parse_market_chart_to_rows(payload), <<>>))

\* fetch_hourly_series, given what the provider answered
fetch_hourly_series(payload) == parse_market_chart_to_rows(payload)

----------------------------------------------------------------------------
(* Freshness Evaluator *)

\* (mutation) the buffered age is not raised to 1
compute_days_to_pull_generic_unclipped(last_ts, max_days, at) ==
    IF last_ts = None THEN max_days
    ELSE LET delta_days == (at - last_ts) \div SecondsPerDay
         IN  IF delta_days >= max_days THEN max_days
             ELSE Min(max_days, delta_days + 2)

\* (now - last_ts).days is the floor of the age in days, also when negative
compute_days_to_pull_generic(last_ts, max_days, at) ==
    IF last_ts = None THEN max_days
    ELSE LET delta_days == (at - last_ts) \div SecondsPerDay
         IN  IF delta_days >= max_days THEN max_days
             ELSE Min(max_days, Max(1, delta_days + 2))

compute_daily_days_to_pull(last_daily_ts, at) ==
    compute_days_to_pull_generic(last_daily_ts, BULK_DAYS_BACK, at)

compute_hourly_days_to_pull(last_hourly_ts, at) ==
    compute_days_to_pull_generic(last_hourly_ts, HOURLY_MAX_DAYS_BACK, at)

\* age_hours >= 2.5, with age_hours = seconds / 3600.0
\* (mutation) the threshold itself is still fresh
should_run_hourly_strict(last_hourly_ts, at) ==
    IF last_hourly_ts = None THEN TRUE
    ELSE (at - last_hourly_ts) * 10 > HOURLY_MIN_AGE_HOURS_X10 * SecondsPerHour

should_run_hourly(last_hourly_ts, at) ==
    IF last_hourly_ts = None THEN TRUE
    ELSE (at - last_hourly_ts) * 10 >= HOURLY_MIN_AGE_HOURS_X10 * SecondsPerHour

should_run_daily(last_daily_ts, at) ==
    IF last_daily_ts = None THEN TRUE
    ELSE (at - last_daily_ts) * 10 >= DAILY_MIN_AGE_HOURS_X10 * SecondsPerHour

----------------------------------------------------------------------------
(* Price Store *)

\* the parameters of one INSERT: the row of asset_id for the normalized point r
PriceRow(asset_id, r) ==
    [asset_id       |-> asset_id,
     observed_at    |-> r.observed_at,
     currency_code  |-> Upper(VS_CURRENCY),
     price          |-> r.price,
     market_cap_usd |-> r.market_cap_usd,
     volume_24h_usd |-> r.volume_24h_usd]

\* ON CONFLICT (asset_id, observed_at, currency_code)
Conflicts(table, row) ==
    \E x \in table : /\ x.asset_id = row.asset_id
                     /\ x.observed_at = row.observed_at
                     /\ x.currency_code = row.currency_code

\* (mutation) ON CONFLICT ... DO UPDATE: the new row replaces the stored one
InsertOrOverwrite(table, row) ==
    {x \in table : ~(/\ x.asset_id = row.asset_id
                     /\ x.observed_at = row.observed_at
                     /\ x.currency_code = row.currency_code)} \cup {row}

\* INSERT ... ON CONFLICT ... DO NOTHING, for one row
InsertOrSkip(table, row) ==
    IF Conflicts(table, row) THEN table ELSE table \cup {row}

RECURSIVE InsertPrices(_, _, _)
\* conn.execute(insert_sql, [...]): the rows one after the other
InsertPrices(table, asset_id, rows) ==
    IF rows = <<>> THEN table
    ELSE InsertPrices(InsertOrSkip(table, PriceRow(asset_id, Head(rows))),
                      asset_id, Tail(rows))

\* (mutation) the UPDATE without its "IS NULL OR <" condition
OverwriteWatermark(current, last_ts) == last_ts

\* SET last_..._observed_at = :last_ts WHERE ... IS NULL OR ... < :last_ts
AdvanceWatermark(current, last_ts) ==
    IF current = None \/ current < last_ts THEN last_ts ELSE current

\* (mutation) the UPDATE of the daily watermark is left out
UpdateLastDailySkipped(asset_table, asset_id, last_ts) == asset_table

UpdateLastDaily(asset_table, asset_id, last_ts) ==
    [a \in DOMAIN asset_table |->
        IF a = asset_id
        THEN [asset_table[a] EXCEPT !.last_daily_observed_at = AdvanceWatermark(@, last_ts)]
        ELSE asset_table[a]]

\* (mutation) one watermark for both grains: the hourly UPDATE also sets
\* last_daily_observed_at
UpdateLastHourlyShared(asset_table, asset_id, last_ts) ==
    [a \in DOMAIN asset_table |->
        IF a = asset_id
        THEN [asset_table[a] EXCEPT !.last_hourly_observed_at = AdvanceWatermark(@, last_ts),
                                    !.last_daily_observed_at = last_ts]
        ELSE asset_table[a]]

UpdateLastHourly(asset_table, asset_id, last_ts) ==
    [a \in DOMAIN asset_table |->
        IF a = asset_id
        THEN [asset_table[a] EXCEPT !.last_hourly_observed_at = AdvanceWatermark(@, last_ts)]
        ELSE asset_table[a]]

\* What can go wrong inside one asset's transaction (at most one fault a
\* transaction): a provider call raising, or a statement raising.  A failed
\* statement either leaves the transaction usable ("hourly_insert": the
\* failure is raised before the statement reaches the server) or, as
\* PostgreSQL does for a statement the server rejects, aborts it
\* ("hourly_insert_abort"): every later statement of an aborted transaction
\* raises, and its COMMIT rolls back.
Faults == {"none", "daily_fetch", "daily_insert", "hourly_fetch",
           "hourly_insert", "hourly_insert_abort", "daily_update", "hourly_update"}

\* One call, on the transaction's view db = [asset, daily, hourly] of the
\* three tables; env = [daily, hourly: the provider's two answers, fault].
\* The result tells whether an exception left the function (raised, error),
\* whether the transaction is aborted, the view after the last statement
\* that ran, and the returned counts.
bulk_insert_prices_and_update_last_observed(db, asset_id, days_for_daily, days_for_hourly, env) ==
    LET \* ---- Fetch daily ----
        daily_called  == days_for_daily # None
        daily_fetch_x == daily_called /\ env.fault = "daily_fetch"
        daily_rows    == IF daily_called /\ ~daily_fetch_x
                         THEN fetch_daily_series(env.daily) ELSE <<>>
        daily_ins_x   == daily_rows # <<>> /\ env.fault = "daily_insert"
        db1 == IF daily_rows # <<>> /\ ~daily_ins_x
               THEN [db EXCEPT !.daily = InsertPrices(@, asset_id, daily_rows)]
               ELSE db
        \* ---- Fetch hourly (optional), inside try/except ----
        hourly_called  == ENABLE_HOURLY /\ days_for_hourly # None
        hourly_fetch_x == hourly_called /\ env.fault = "hourly_fetch"
        hourly_fetched == IF hourly_called /\ ~hourly_fetch_x
                          THEN fetch_hourly_series(env.hourly) ELSE <<>>
        hourly_ins_x   == /\ hourly_fetched # <<>>
                          /\ env.fault \in {"hourly_insert", "hourly_insert_abort"}
        aborted        == hourly_fetched # <<>> /\ env.fault = "hourly_insert_abort"
        hourly_error   == IF hourly_fetch_x THEN "hourly fetch failed"
                          ELSE IF hourly_ins_x THEN "hourly insert failed"
                          ELSE NoError
        hourly_rows    == IF hourly_error # NoError THEN <<>> ELSE hourly_fetched
        db2 == IF hourly_rows # <<>>
               THEN [db1 EXCEPT !.hourly = InsertPrices(@, asset_id, hourly_rows)]
               ELSE db1
        \* ---- the two watermark updates ----
        daily_upd_x == daily_rows # <<>> /\ (aborted \/ env.fault = "daily_update")
        db3 == IF daily_rows # <<>> /\ ~daily_upd_x
               THEN [db2 EXCEPT !.asset = UpdateLastDaily(@, asset_id,
                                   daily_rows[Len(daily_rows)].observed_at)]
               ELSE db2
        hourly_upd_x == hourly_rows # <<>> /\ env.fault = "hourly_update"
        db4 == IF hourly_rows # <<>> /\ ~hourly_upd_x
               THEN [db3 EXCEPT !.asset = UpdateLastHourly(@, asset_id,
                                   hourly_rows[Len(hourly_rows)].observed_at)]
               ELSE db3
        error == IF daily_fetch_x THEN "daily fetch failed"
                 ELSE IF daily_ins_x THEN "daily insert failed"
                 ELSE IF daily_upd_x /\ aborted THEN "transaction is aborted"
                 ELSE IF daily_upd_x THEN "daily update failed"
                 ELSE IF hourly_upd_x THEN "hourly update failed"
                 ELSE NoError
    IN  [raised  |-> error # NoError,
         error   |-> error,
         aborted |-> aborted,
         db      |-> IF daily_fetch_x THEN db
                     ELSE IF daily_ins_x THEN db
                     ELSE IF daily_upd_x THEN db2
                     ELSE IF hourly_upd_x THEN db3
                     ELSE db4,
         counts  |-> [daily_rows   |-> Len(daily_rows),
                      hourly_rows  |-> Len(hourly_rows),
                      hourly_error |-> hourly_error]]

----------------------------------------------------------------------------
(* The environment of the ingestion path *)

\* number of loop passes (asset transactions) the model follows, over all runs
MaxTx == 2

\* three instants a provider sample can carry: midnight of two following
\* days, and one hour into the second day
T1 == 10 * SecondsPerDay
T2 == 11 * SecondsPerDay
T3 == T2 + SecondsPerHour

\* the instants at which the clock is read: T2 plus 2h29m59s, 2h30m, 23h
NowValues == {T2 + 8999, T2 + 9000, T2 + 82800}

\* a provider payload of co-indexed samples <<timestamp in ms, value>>
Payload(points) ==
    [prices        |-> [i \in DOMAIN points |-> <<points[i][1] * MillisPerSecond, points[i][2]>>],
     market_caps   |-> [i \in DOMAIN points |-> <<points[i][1] * MillisPerSecond, 1000 * points[i][2]>>],
     total_volumes |-> [i \in DOMAIN points |-> <<points[i][1] * MillisPerSecond, None>>]]

\* what the Series Client may answer: nothing; the sample of T1; the samples
\* of T2 and T1, newest first, with the price of T1 revised; the two samples
\* of the second day, newest first
Payloads == {Payload(<<>>),
             Payload(<< <<T1, 1>> >>),
             Payload(<< <<T2, 2>>, <<T1, 2>> >>),
             Payload(<< <<T3, 3>>, <<T2, 3>> >>)}

\* an answer that is never asked for, or never read, is left empty
Envs ==
    {e \in [daily : Payloads, hourly : Payloads, fault : Faults] :
        /\ e.fault = "daily_fetch" => e.daily = Payload(<<>>)
        /\ e.fault \in {"daily_fetch", "daily_insert", "hourly_fetch"} => e.hourly = Payload(<<>>)}

NoEnv == [daily |-> Payload(<<>>), hourly |-> Payload(<<>>), fault |-> "none"]

NoSummary == [asset_count |-> 0, per_asset_rows |-> <<>>, errors |-> <<>>]

\* the permutations of a finite set, as sequences
Orderings(S) ==
    {s \in [1..Cardinality(S) -> S] : \A i, j \in DOMAIN s : i # j => s[i] # s[j]}

----------------------------------------------------------------------------
(* run_bulk_import *)

\* SELECT ... FROM crypto_asset WHERE is_active = TRUE (in no stated order)
get_active_assets(asset_table) ==
    {[i \in DOMAIN o |->
        [id                      |-> o[i],
         coingecko_id            |-> asset_table[o[i]].coingecko_id,
         last_daily_observed_at  |-> asset_table[o[i]].last_daily_observed_at,
         last_hourly_observed_at |-> asset_table[o[i]].last_hourly_observed_at]] :
     o \in Orderings({a \in DOMAIN asset_table : asset_table[a].is_active})}

\* INSERT INTO job_run_log ... ON CONFLICT (job_name) DO UPDATE
update_job_run_log(log, job_name, status, details, at) ==
    (job_name :> [last_run_at |-> at, last_status |-> status, details |-> details]) @@ log

\* Step 1: read the active assets; with none, log success and return
StartRun ==
    /\ pc = "idle"
    /\ \E read \in get_active_assets(crypto_asset) :
          /\ txs + Len(read) <= MaxTx
          /\ txs' = txs + Len(read)
          /\ IF read = <<>>
             THEN /\ job_run_log' = update_job_run_log(job_run_log, BULK_IMPORT_JOB_NAME,
                                        "success", [asset_count |-> 0], now)
                  /\ UNCHANGED <<pc, assets, idx, summary>>
             ELSE /\ assets' = read
                  /\ idx' = 1
                  /\ summary' = [asset_count |-> Len(read), per_asset_rows |-> <<>>, errors |-> <<>>]
                  /\ pc' = "loop"
                  /\ UNCHANGED job_run_log
    /\ UNCHANGED <<now, crypto_asset, crypto_asset_price_daily, crypto_asset_price_hourly, last_env>>
    /\ UNCHANGED grouping_vars

\* the decisions of one loop pass for the asset record read in step 1
run_daily(asset) == should_run_daily(asset.last_daily_observed_at, now)
run_hourly(asset) == ENABLE_HOURLY /\ should_run_hourly(asset.last_hourly_observed_at, now)
\* (mutation) the daily window is sized whatever the decision was
days_daily_always(asset) ==
    compute_daily_days_to_pull(asset.last_daily_observed_at, now)

days_daily(asset) ==
    IF run_daily(asset) THEN compute_daily_days_to_pull(asset.last_daily_observed_at, now)
    ELSE None
days_hourly(asset) ==
    IF run_hourly(asset) THEN compute_hourly_days_to_pull(asset.last_hourly_observed_at, now)
    ELSE None

\* the three tables as a transaction sees them when it begins
CurrentDb ==
    [asset  |-> crypto_asset,
     daily  |-> crypto_asset_price_daily,
     hourly |-> crypto_asset_price_hourly]

\* the call made for the asset inside "with engine.begin() as conn"
AssetTx(asset, env) ==
    bulk_insert_prices_and_update_last_observed(
        CurrentDb, asset.id, days_daily(asset), days_hourly(asset), env)

\* (mutation) no rollback: what the statements wrote stays
EndTransactionKeepingWrites(db, res) == res.db

\* leaving "with engine.begin()": rollback on an exception, else COMMIT, and
\* the COMMIT of an aborted transaction rolls back as well
EndTransaction(db, res) ==
    IF res.raised \/ res.aborted THEN db ELSE res.db

\* Step 2, one pass of the loop: the decisions for assets[idx] and, unless
\* both grains are fresh, its transaction under the environment env
IngestAsset(env) ==
    /\ pc = "loop"
    /\ idx <= Len(assets)
    /\ LET asset == assets[idx]
           res   == AssetTx(asset, env)
           out   == EndTransaction(CurrentDb, res)
       IN  IF ~run_daily(asset) /\ ~run_hourly(asset)
           THEN /\ UNCHANGED <<crypto_asset, crypto_asset_price_daily,
                               crypto_asset_price_hourly, summary>>
                /\ last_env' = NoEnv
           ELSE /\ last_env' = env
                /\ crypto_asset' = out.asset
                /\ crypto_asset_price_daily' = out.daily
                /\ crypto_asset_price_hourly' = out.hourly
                /\ summary' =
                     IF res.raised
                     THEN [summary EXCEPT !.errors = (asset.coingecko_id :> res.error) @@ @]
                     ELSE [summary EXCEPT !.per_asset_rows = (asset.coingecko_id :> res.counts) @@ @]
    /\ idx' = idx + 1
    /\ UNCHANGED <<now, job_run_log, pc, assets, txs>>
    /\ UNCHANGED grouping_vars

ProcessAsset == \E env \in Envs : IngestAsset(env)

\* Step 3: log the run
FinishRun ==
    /\ pc = "loop"
    /\ idx > Len(assets)
    /\ LET status == IF DOMAIN summary.errors = {} THEN "success" ELSE "partial_success"
       IN  job_run_log' = update_job_run_log(job_run_log, BULK_IMPORT_JOB_NAME, status, summary, now)
    /\ pc' = "idle"
    /\ assets' = <<>>
    /\ idx' = 0
    /\ summary' = NoSummary
    /\ UNCHANGED <<now, crypto_asset, crypto_asset_price_daily, crypto_asset_price_hourly, txs, last_env>>
    /\ UNCHANGED grouping_vars

\* time passes
Tick ==
    /\ \E t \in NowValues : t > now /\ now' = t
    /\ UNCHANGED <<crypto_asset, job_run_log>>
    /\ UNCHANGED ingestion_vars
    /\ UNCHANGED grouping_vars

----------------------------------------------------------------------------
(* GroupSelector.py: ranking and selection *)

\* a market_cap that is present but neither int nor float
NotANumber == 0 - 2

\* the slice bounds of the four groups and the identifier of the DOGE rule
TOP15_SIZE == 15
MEME_TOP_N == 5
L1_TOP_N == 5
DEFI_TOP_N == 5
DOGE == "dogecoin"

Range(s) == {s[i] : i \in DOMAIN s}

IdsOf(rows) == [i \in DOMAIN rows |-> rows[i].id]

\* rows[:n]
Take(rows, n) == SubSeq(rows, 1, Min(n, Len(rows)))

safe_mcap(coin_row) ==
    IF coin_row.market_cap \in Nat THEN coin_row.market_cap ELSE 0

\* (mutation) ascending: c goes behind every entry whose key is at most its own
InsertByMcapAsc(sorted, c) ==
    LET k == Cardinality({i \in DOMAIN sorted : safe_mcap(sorted[i]) <= safe_mcap(c)})
    IN  SubSeq(sorted, 1, k) \o <<c>> \o SubSeq(sorted, k + 1, Len(sorted))

\* one step of the stable descending sort: c goes behind every entry whose
\* key is at least its own
InsertByMcapDesc(sorted, c) ==
    LET k == Cardinality({i \in DOMAIN sorted : safe_mcap(sorted[i]) >= safe_mcap(c)})
    IN  SubSeq(sorted, 1, k) \o <<c>> \o SubSeq(sorted, k + 1, Len(sorted))

\* sorted(rows, key=safe_mcap, reverse=True)
RECURSIVE SortedByMcapDesc(_)
SortedByMcapDesc(rows) ==
    IF rows = <<>> THEN <<>>
    ELSE InsertByMcapDesc(SortedByMcapDesc(SubSeq(rows, 1, Len(rows) - 1)), rows[Len(rows)])

\* {c["id"]: c for c in global_markets}: the last row of an id wins
markets_by_id(global_markets) ==
    [id \in Range(IdsOf(global_markets)) |->
        global_markets[CHOOSE i \in DOMAIN global_markets :
                          /\ global_markets[i].id = id
                          /\ \A j \in DOMAIN global_markets :
                                global_markets[j].id = id => j <= i]]

\* next((c for c in rows if c["id"] == id), None), None being <<>>
FirstWithId(rows, id) ==
    LET hits == {i \in DOMAIN rows : rows[i].id = id}
    IN  IF hits = {} THEN <<>>
        ELSE <<rows[CHOOSE i \in hits : \A j \in hits : i <= j]>>

\* markets_by_id.get(id), None being <<>>
GetById(by_id, id) == IF id \in DOMAIN by_id THEN <<by_id[id]>> ELSE <<>>

top15_rows(global_markets) == Take(SortedByMcapDesc(global_markets), TOP15_SIZE)

\* (mutation) DOGE takes the place of the last ranked member
meme_rows_displacing(meme_markets, global_markets) ==
    LET meme_candidates == SortedByMcapDesc(meme_markets)
        base_top        == Take(meme_candidates, MEME_TOP_N)
        found           == FirstWithId(meme_candidates, DOGE)
        doge_row        == IF found = <<>>
                           THEN GetById(markets_by_id(global_markets), DOGE)
                           ELSE found
    IN  IF DOGE \in Range(IdsOf(base_top)) \/ doge_row = <<>> \/ base_top = <<>>
        THEN base_top
        ELSE SubSeq(base_top, 1, Len(base_top) - 1) \o doge_row

\* (mutation) DOGE is looked for in the category answer only
meme_rows_no_fallback(meme_markets, global_markets) ==
    LET meme_candidates == SortedByMcapDesc(meme_markets)
        base_top        == Take(meme_candidates, MEME_TOP_N)
        base_ids        == Range(IdsOf(base_top))
        doge_row        == FirstWithId(meme_candidates, DOGE)
    IN  IF DOGE \in base_ids \/ doge_row = <<>> THEN base_top
        ELSE base_top \o doge_row

\* the MEME selection with the DOGE rule
meme_rows(meme_markets, global_markets) ==
    LET meme_candidates == SortedByMcapDesc(meme_markets)
        base_top        == Take(meme_candidates, MEME_TOP_N)
        base_ids        == Range(IdsOf(base_top))
        found           == FirstWithId(meme_candidates, DOGE)
        doge_row        == IF found = <<>>
                           THEN GetById(markets_by_id(global_markets), DOGE)
                           ELSE found
    IN  IF DOGE \in base_ids THEN base_top
        ELSE IF doge_row # <<>> /\ doge_row[1].id \notin base_ids
             THEN base_top \o doge_row
             ELSE base_top

l1_rows(l1_markets) == Take(SortedByMcapDesc(l1_markets), L1_TOP_N)

defi_rows(defi_markets) == Take(SortedByMcapDesc(defi_markets), DEFI_TOP_N)

----------------------------------------------------------------------------
(* GroupSelector.py: the store *)

GroupTags == {TOP15_TAG, MEME_TAG, L1_TAG, DEFI_TAG}

\* INSERT INTO crypto_group ... ON CONFLICT (tag) DO UPDATE; the id is the tag
get_or_create_group(group_table, tag, type_, description) ==
    (tag :> [type |-> type_, description |-> description]) @@ group_table

\* (mutation) on a conflict the whole row is replaced by a new one
get_or_create_asset_replacing(asset_table, cg_id, symbol, name) ==
    (cg_id :> [coingecko_id            |-> cg_id,
               symbol                  |-> symbol,
               name                    |-> name,
               last_daily_observed_at  |-> None,
               last_hourly_observed_at |-> None,
               is_active               |-> TRUE]) @@ asset_table

\* INSERT INTO crypto_asset ... ON CONFLICT (coingecko_id) DO UPDATE SET symbol,
\* name; a new row has no watermark, and its is_active is the column default,
\* which set_is_active_flags rewrites before the COMMIT
get_or_create_asset(asset_table, cg_id, symbol, name) ==
    IF cg_id \in DOMAIN asset_table
    THEN [asset_table EXCEPT ![cg_id].symbol = symbol, ![cg_id].name = name]
    ELSE (cg_id :> [coingecko_id            |-> cg_id,
                    symbol                  |-> symbol,
                    name                    |-> name,
                    last_daily_observed_at  |-> None,
                    last_hourly_observed_at |-> None,
                    is_active               |-> TRUE]) @@ asset_table

\* INSERT INTO crypto_asset_group ... ON CONFLICT (asset_id, group_id) DO NOTHING
add_asset_to_group(membership, asset_id, group_id) ==
    membership \cup {[asset_id |-> asset_id, group_id |-> group_id]}

\* (mutation) the first UPDATE, which sets every flag to FALSE, is left out
set_is_active_flags_without_reset(asset_table, membership) ==
    [a \in DOMAIN asset_table |->
        [asset_table[a] EXCEPT !.is_active = @ \/ \E m \in membership : m.asset_id = a]]

\* UPDATE ... SET is_active = FALSE; UPDATE ... SET is_active = TRUE WHERE id IN
\* (SELECT DISTINCT asset_id FROM crypto_asset_group)
set_is_active_flags(asset_table, membership) ==
    [a \in DOMAIN asset_table |->
        [asset_table[a] EXCEPT !.is_active = \E m \in membership : m.asset_id = a]]

\* (mutation) the members are read after the DELETE has cleared them
get_current_group_members_cleared(membership, group_id) == {}

get_current_group_members(membership, group_id) ==
    {m.asset_id : m \in {x \in membership : x.group_id = group_id}}

\* (mutation) the DELETE is left out
KeepMemberships(membership, group_ids) == membership

\* DELETE FROM crypto_asset_group WHERE group_id IN (...)
ClearMemberships(membership, group_ids) ==
    {m \in membership : m.group_id \notin group_ids}

\* INSERT INTO crypto_asset_group_history ... NOW() ...
record_membership_change(history, asset_id, group_id, event_type, market_cap_usd, rank_in_group, at) ==
    Append(history, [asset_id        |-> asset_id,
                     group_id        |-> group_id,
                     event_type      |-> event_type,
                     event_timestamp |-> at,
                     market_cap_usd  |-> market_cap_usd,
                     rank_in_group   |-> rank_in_group])

\* the loop "for asset_id in left_members", in the order left_order
RECURSIVE RecordLeft(_, _, _, _)
RecordLeft(history, group_id, left_order, at) ==
    IF left_order = <<>> THEN history
    ELSE RecordLeft(record_membership_change(history, left_order[1], group_id,
                                             "LEFT", None, None, at),
                    group_id, Tail(left_order), at)

\* the loop "for member_data in new_member_data"
RECURSIVE RecordJoined(_, _, _, _, _)
RecordJoined(history, group_id, joined_members, new_member_data, at) ==
    IF new_member_data = <<>> THEN history
    ELSE LET member_data == new_member_data[1]
             recorded    == IF member_data.asset_id \in joined_members
                            THEN record_membership_change(
                                     history, member_data.asset_id, group_id, "JOINED",
                                     member_data.market_cap, member_data.rank, at)
                            ELSE history
         IN  RecordJoined(recorded, group_id, joined_members, Tail(new_member_data), at)

\* old_members - new_members
left_members(old_members, new_member_data) ==
    old_members \ {new_member_data[i].asset_id : i \in DOMAIN new_member_data}

\* (mutation) every member of the new snapshot is recorded as JOINED
track_group_changes_all_joined(history, group_id, old_members, new_member_data, left_order, at) ==
    LET new_members == {new_member_data[i].asset_id : i \in DOMAIN new_member_data}
    IN  RecordJoined(RecordLeft(history, group_id, left_order, at),
                     group_id, new_members, new_member_data, at)

\* left_order is the order in which Python iterates the set left_members
track_group_changes(history, group_id, old_members, new_member_data, left_order, at) ==
    LET new_members    == {new_member_data[i].asset_id : i \in DOMAIN new_member_data}
        joined_members == new_members \ old_members
    IN  RecordJoined(RecordLeft(history, group_id, left_order, at),
                     group_id, joined_members, new_member_data, at)

\* the list new_*_data built by one loop of step 7
new_member_data_of(rows) ==
    [i \in DOMAIN rows |->
        [asset_id |-> rows[i].id, market_cap |-> safe_mcap(rows[i]), rank |-> i]]

\* one loop of step 7 on the asset and membership tables
RECURSIVE UpsertMembers(_, _, _)
UpsertMembers(tables, rows, group_id) ==
    IF rows = <<>> THEN tables
    ELSE LET row == rows[1]
         IN  UpsertMembers(
                 [asset      |-> get_or_create_asset(tables.asset, row.id, row.symbol, row.name),
                  membership |-> add_asset_to_group(tables.membership, row.id, group_id)],
                 Tail(rows), group_id)

----------------------------------------------------------------------------
(* run_group_selector *)

\* steps 2 to 5: the rows of each group, from the answers of the provider
group_rows(markets) ==
    (TOP15_TAG :> top15_rows(markets.global)) @@
    (MEME_TAG  :> meme_rows(markets.meme, markets.global)) @@
    (L1_TAG    :> l1_rows(markets.l1)) @@
    (DEFI_TAG  :> defi_rows(markets.defi))

\* where a grouping run may raise: one of the four queries, or the last
\* statement of the transaction
GroupFaults == {"none", "fetch_global", "fetch_meme", "fetch_l1", "fetch_defi", "log_write"}

\* the body of "with engine.begin() as conn", on the tables db as the
\* transaction finds them; left_order[g] is the order in which the set of
\* the members that left g is iterated
run_group_selector(db, markets, left_order, at) ==
    LET rows    == group_rows(markets)
        summary_ == [global_count  |-> Len(markets.global),
                     TOP15         |-> IdsOf(rows[TOP15_TAG]),
                     MEME_TOP5     |-> IdsOf(rows[MEME_TAG]),
                     L1_BLUECHIP   |-> IdsOf(rows[L1_TAG]),
                     DEFI_BLUECHIP |-> IdsOf(rows[DEFI_TAG])]
        g1      == get_or_create_group(db.group, TOP15_TAG, "RankBucket",
                       "Top 15 coins by market cap (USD)")
        g2      == get_or_create_group(g1, MEME_TAG, "Theme",
                       "Top meme coins by market cap (must include DOGE; 5 or 6 members)")
        g3      == get_or_create_group(g2, L1_TAG, "Theme",
                       "Sample of major Layer 1 blockchains (top by market cap in category)")
        g4      == get_or_create_group(g3, DEFI_TAG, "Theme",
                       "Sample of major DeFi blue-chip protocols (top by market cap in category)")
        old_members == [g \in GroupTags |-> get_current_group_members(db.membership, g)]
        cleared == ClearMemberships(db.membership, GroupTags)
        t1      == UpsertMembers([asset |-> db.asset, membership |-> cleared],
                                 rows[TOP15_TAG], TOP15_TAG)
        t2      == UpsertMembers(t1, rows[MEME_TAG], MEME_TAG)
        t3      == UpsertMembers(t2, rows[L1_TAG], L1_TAG)
        t4      == UpsertMembers(t3, rows[DEFI_TAG], DEFI_TAG)
        h1      == track_group_changes(db.history, TOP15_TAG, old_members[TOP15_TAG],
                       new_member_data_of(rows[TOP15_TAG]), left_order[TOP15_TAG], at)
        h2      == track_group_changes(h1, MEME_TAG, old_members[MEME_TAG],
                       new_member_data_of(rows[MEME_TAG]), left_order[MEME_TAG], at)
        h3      == track_group_changes(h2, L1_TAG, old_members[L1_TAG],
                       new_member_data_of(rows[L1_TAG]), left_order[L1_TAG], at)
        h4      == track_group_changes(h3, DEFI_TAG, old_members[DEFI_TAG],
                       new_member_data_of(rows[DEFI_TAG]), left_order[DEFI_TAG], at)
        written == [asset      |-> set_is_active_flags(t4.asset, t4.membership),
                    group      |-> g4,
                    membership |-> t4.membership,
                    history    |-> h4,
                    log        |-> db.log]
    IN  IF markets.fault \in {"fetch_global", "fetch_meme", "fetch_l1", "fetch_defi"}
        THEN [raised |-> TRUE, aborted |-> FALSE, db |-> db]
        ELSE IF markets.fault = "log_write"
        THEN [raised |-> TRUE, aborted |-> FALSE, db |-> written]
        ELSE [raised |-> FALSE, aborted |-> FALSE,
              db |-> [written EXCEPT !.log = update_job_run_log(
                          db.log, GROUP_SELECTOR_JOB_NAME, "success", summary_, at)]]

\* the orders in which the four sets of leavers may be iterated
LeftOrders(membership, markets) ==
    LET rows    == group_rows(markets)
        left(g) == left_members(get_current_group_members(membership, g),
                                new_member_data_of(rows[g]))
    IN  {(TOP15_TAG :> a) @@ (MEME_TAG :> b) @@ (L1_TAG :> c) @@ (DEFI_TAG :> d) :
            a \in Orderings(left(TOP15_TAG)), b \in Orderings(left(MEME_TAG)),
            c \in Orderings(left(L1_TAG)), d \in Orderings(left(DEFI_TAG))}

----------------------------------------------------------------------------
(* The environment of the grouping path *)

\* number of grouping runs the model follows
MaxGroupRuns == 2

\* one entry of a /coins/markets answer
Coin(id, symbol, name, market_cap) ==
    [id |-> id, symbol |-> symbol, name |-> name, market_cap |-> market_cap]

BTC(market_cap)  == Coin("bitcoin", "btc", "Bitcoin", market_cap)
USDT(market_cap) == Coin("tether", "usdt", "Tether", market_cap)
Doge(market_cap) == Coin(DOGE, "doge", "Dogecoin", market_cap)
SHIB(market_cap) == Coin("shiba-inu", "shib", "Shiba Inu", market_cap)
UNI(market_cap)  == Coin("uniswap", "uni", "Uniswap", market_cap)

\* what the global query may answer: nothing; two coins; a third coin in
\* between, the former second renamed and without a market cap, listed first;
\* the first coin gone and another behind the former second, listed out of
\* order
GlobalAnswers ==
    {<<>>,
     <<BTC(900), USDT(100)>>,
     <<Coin("tether", "usdt", "Tether USDt", None), BTC(900), Doge(20)>>,
     <<Doge(20), USDT(100)>>}

\* what the category queries may answer
MemeAnswers == {<<>>, <<SHIB(10)>>, <<SHIB(10), Doge(20)>>}
L1Answers   == {<<>>, <<BTC(900)>>}
DefiAnswers == {<<>>, <<UNI(NotANumber)>>}

\* an answer that is never asked for is left empty, and a run that raises is
\* followed for every global answer, with empty category answers
Markets ==
    {m \in [global : GlobalAnswers, meme : MemeAnswers, l1 : L1Answers,
            defi : DefiAnswers, fault : GroupFaults] :
        /\ m.fault = "fetch_global" => m.global = <<>>
        /\ m.fault # "none" => m.meme = <<>> /\ m.l1 = <<>> /\ m.defi = <<>>}

NoCall == [fn |-> "none"]

NoMarkets == [global |-> <<>>, meme |-> <<>>, l1 |-> <<>>, defi |-> <<>>, fault |-> "none"]

EmptyGroupDb ==
    [asset |-> <<>>, group |-> <<>>, membership |-> {}, history |-> <<>>, log |-> <<>>]

\* the five tables as the grouping transaction sees them when it begins
CurrentGroupDb ==
    [asset      |-> crypto_asset,
     group      |-> crypto_group,
     membership |-> crypto_asset_group,
     history    |-> crypto_asset_group_history,
     log        |-> job_run_log]

\* one grouping run: the transaction under the answers markets, then the
\* COMMIT or the rollback
GroupSelect(markets, left_order) ==
    /\ group_runs' = group_runs + 1
    /\ last_markets' = markets
    /\ \E out \in {EndTransaction(CurrentGroupDb,
                        run_group_selector(CurrentGroupDb, markets, left_order, now))} :
           /\ crypto_asset' = out.asset
           /\ crypto_group' = out.group
           /\ crypto_asset_group' = out.membership
           /\ crypto_asset_group_history' = out.history
           /\ job_run_log' = out.log
    /\ UNCHANGED <<now, call>>
    /\ UNCHANGED ingestion_vars

GroupRun ==
    /\ group_runs < MaxGroupRuns
    /\ \E markets \in Markets :
          \E left_order \in LeftOrders(crypto_asset_group, markets) :
              GroupSelect(markets, left_order)

----------------------------------------------------------------------------
(* Specifications *)

\* the global answers of two earlier grouping runs, at T1 and at T2: they
\* leave no asset, one asset or two assets active, and one deactivated
SeedAnswers ==
    {<< <<USDT(100)>>, <<>> >>,
     << <<BTC(900), USDT(100)>>, <<BTC(900)>> >>,
     << <<BTC(900), USDT(100), Doge(20)>>, <<Doge(20), BTC(900)>> >>}

\* the store after a grouping run at the instant at that meets no fault
AfterGroupRun(db, global_markets, at) ==
    LET markets == [NoMarkets EXCEPT !.global = global_markets]
    IN  {EndTransaction(db, run_group_selector(db, markets, left_order, at)) :
            left_order \in LeftOrders(db.membership, markets)}

\* the ingestion path, on the registry that the grouping path has built
Init ==
    /\ now = T2 + 8999
    /\ \E seed \in SeedAnswers :
         \E first \in AfterGroupRun(EmptyGroupDb, seed[1], T1) :
           \E second \in AfterGroupRun(first, seed[2], T2) :
              /\ crypto_asset = second.asset
              /\ crypto_group = second.group
              /\ crypto_asset_group = second.membership
              /\ crypto_asset_group_history = second.history
              /\ job_run_log = second.log
              /\ last_markets = [NoMarkets EXCEPT !.global = seed[2]]
    /\ group_runs = 2
    /\ crypto_asset_price_daily = {}
    /\ crypto_asset_price_hourly = {}
    /\ pc = "idle"
    /\ assets = <<>>
    /\ idx = 0
    /\ summary = NoSummary
    /\ txs = 0
    /\ last_env = NoEnv
    /\ call = NoCall

Next == StartRun \/ ProcessAsset \/ FinishRun \/ Tick

Spec == Init /\ [][Next]_vars

\* the grouping path alone, from the empty store
InitGroups ==
    /\ now = T2 + 8999
    /\ crypto_asset = <<>>
    /\ crypto_group = <<>>
    /\ crypto_asset_group = {}
    /\ crypto_asset_group_history = <<>>
    /\ job_run_log = <<>>
    /\ group_runs = 0
    /\ last_markets = NoMarkets
    /\ crypto_asset_price_daily = {}
    /\ crypto_asset_price_hourly = {}
    /\ pc = "idle"
    /\ assets = <<>>
    /\ idx = 0
    /\ summary = NoSummary
    /\ txs = 0
    /\ last_env = NoEnv
    /\ call = NoCall

NextGroups == GroupRun

SpecGroups == InitGroups /\ [][NextGroups]_vars

----------------------------------------------------------------------------
(* The ledger over a longer sequence of grouping runs *)

\* the grouping runs the model follows for the ledger
MaxLedgerRuns == 4

\* the answers of these runs: any global answer, no or one meme candidate,
\* no layer-1 and no DeFi candidate, and either no failure or a failing meme
\* query after an empty global answer
LedgerMarkets ==
    {m \in Markets : /\ m.l1 = <<>> /\ m.defi = <<>>
                     /\ m.meme \in {<<>>, <<SHIB(10)>>}
                     /\ m.fault \in {"none", "fetch_meme"}
                     /\ m.fault = "fetch_meme" => m.global = <<>>}

GroupRunLedger ==
    /\ group_runs < MaxLedgerRuns
    /\ \E markets \in LedgerMarkets :
          \E left_order \in LeftOrders(crypto_asset_group, markets) :
              GroupSelect(markets, left_order)

NextLedger == GroupRunLedger

SpecLedger == InitGroups /\ [][NextLedger]_vars

----------------------------------------------------------------------------
(* The MEME selection on its own *)

\* the longest category answer the model follows
MaxCandidates == 6

\* the entries a category answer is made of: two of them tie, one has no
\* market cap, and DOGE is outranked by five others
MemeCoins ==
    {Coin("pepe", "pepe", "Pepe", 60),
     SHIB(50),
     Coin("bonk", "bonk", "Bonk", 40),
     Coin("floki", "floki", "FLOKI", 30),
     Coin("dogwifcoin", "wif", "dogwifhat", 30),
     Doge(20),
     Coin("brett", "brett", "Brett", None)}

\* the category answers: up to MaxCandidates different entries, in any order
MemeMarkets ==
    UNION {{m \in [1..k -> MemeCoins] : \A i, j \in 1..k : i # j => m[i] # m[j]} :
              k \in 0..MaxCandidates}

\* the global answers: without DOGE, and with it at another market cap
RankGlobalMarkets == {<<BTC(900), USDT(100)>>, <<BTC(900), Doge(21)>>}

SelectMeme ==
    /\ call.fn = "meme_rows"
    /\ ~call.done
    /\ call' = [call EXCEPT !.done = TRUE,
                            !.result = meme_rows(call.meme_markets, call.global_markets)]
    /\ UNCHANGED <<now, crypto_asset, job_run_log>>
    /\ UNCHANGED ingestion_vars
    /\ UNCHANGED <<crypto_group, crypto_asset_group, crypto_asset_group_history,
                   group_runs, last_markets>>

InitRank ==
    /\ \E m \in MemeMarkets, g \in RankGlobalMarkets :
          call = [fn |-> "meme_rows", meme_markets |-> m, global_markets |-> g,
                  done |-> FALSE, result |-> <<>>]
    /\ now = T2 + 8999
    /\ crypto_asset = <<>>
    /\ crypto_group = <<>>
    /\ crypto_asset_group = {}
    /\ crypto_asset_group_history = <<>>
    /\ job_run_log = <<>>
    /\ group_runs = 0
    /\ last_markets = NoMarkets
    /\ crypto_asset_price_daily = {}
    /\ crypto_asset_price_hourly = {}
    /\ pc = "idle"
    /\ assets = <<>>
    /\ idx = 0
    /\ summary = NoSummary
    /\ txs = 0
    /\ last_env = NoEnv

NextRank == SelectMeme

SpecRank == InitRank /\ [][NextRank]_vars

----------------------------------------------------------------------------
(* The freshness decisions on their own *)

\* half the width, in seconds, of the windows of ages around the thresholds
AgeWindow == 5

\* the thresholds of config.py in seconds: 2.5 h and 23 h
HOURLY_MIN_AGE_SECONDS == 9000
DAILY_MIN_AGE_SECONDS == 82800

\* the ages the decisions are asked for: a watermark later than the clock, no
\* age, and the seconds around either threshold
Ages ==
    {0 - 1, 0}
    \cup (HOURLY_MIN_AGE_SECONDS - AgeWindow)..(HOURLY_MIN_AGE_SECONDS + AgeWindow)
    \cup (DAILY_MIN_AGE_SECONDS - AgeWindow)..(DAILY_MIN_AGE_SECONDS + AgeWindow)

DecideFreshness ==
    /\ call.fn = "should_run"
    /\ ~call.done
    /\ call' = [call EXCEPT !.done = TRUE,
                            !.hourly = should_run_hourly(call.last_observed, call.at),
                            !.daily = should_run_daily(call.last_observed, call.at)]
    /\ UNCHANGED <<now, crypto_asset, job_run_log>>
    /\ UNCHANGED ingestion_vars
    /\ UNCHANGED <<crypto_group, crypto_asset_group, crypto_asset_group_history,
                   group_runs, last_markets>>

InitFresh ==
    /\ \E last \in {None, T1, T2, T3}, age \in Ages :
          call = [fn |-> "should_run", last_observed |-> last,
                  at |-> IF last = None THEN T3 + age ELSE last + age,
                  done |-> FALSE, hourly |-> FALSE, daily |-> FALSE]
    /\ now = T2 + 8999
    /\ crypto_asset = <<>>
    /\ crypto_group = <<>>
    /\ crypto_asset_group = {}
    /\ crypto_asset_group_history = <<>>
    /\ job_run_log = <<>>
    /\ group_runs = 0
    /\ last_markets = NoMarkets
    /\ crypto_asset_price_daily = {}
    /\ crypto_asset_price_hourly = {}
    /\ pc = "idle"
    /\ assets = <<>>
    /\ idx = 0
    /\ summary = NoSummary
    /\ txs = 0
    /\ last_env = NoEnv

NextFresh == DecideFreshness

SpecFresh == InitFresh /\ [][NextFresh]_vars

----------------------------------------------------------------------------
(* The backfill sizing on its own *)

\* everything but the call under study: an empty store, nothing running
NothingElse ==
    /\ now = T2 + 8999
    /\ crypto_asset = <<>>
    /\ crypto_group = <<>>
    /\ crypto_asset_group = {}
    /\ crypto_asset_group_history = <<>>
    /\ job_run_log = <<>>
    /\ group_runs = 0
    /\ last_markets = NoMarkets
    /\ crypto_asset_price_daily = {}
    /\ crypto_asset_price_hourly = {}
    /\ pc = "idle"
    /\ assets = <<>>
    /\ idx = 0
    /\ summary = NoSummary
    /\ txs = 0
    /\ last_env = NoEnv

NothingElseChanges ==
    /\ UNCHANGED <<now, crypto_asset, job_run_log>>
    /\ UNCHANGED ingestion_vars
    /\ UNCHANGED <<crypto_group, crypto_asset_group, crypto_asset_group_history,
                   group_runs, last_markets>>

\* half the width, in days, of the windows of ages around the two caps
BackfillWindow == 3

\* the instant the clock shows when the lookback is sized
BackfillNow == 1000 * SecondsPerDay

\* the ages in whole days: watermarks later than the clock, the first days,
\* the days around either cap, and 400
AgeDays ==
    (0 - BackfillWindow - 1)..12
    \cup (HOURLY_MAX_DAYS_BACK - BackfillWindow)..(HOURLY_MAX_DAYS_BACK + BackfillWindow)
    \cup (BULK_DAYS_BACK - BackfillWindow)..(BULK_DAYS_BACK + BackfillWindow)
    \cup {400}

\* the part of a day on top of the whole days
AgeSeconds == {0, 1, SecondsPerDay - 1}

SizeBackfill ==
    /\ call.fn = "days_to_pull"
    /\ ~call.done
    /\ call' = [call EXCEPT !.done = TRUE,
                            !.daily = compute_daily_days_to_pull(call.last_observed, call.at),
                            !.hourly = compute_hourly_days_to_pull(call.last_observed, call.at)]
    /\ NothingElseChanges

InitBackfill ==
    /\ \/ call = [fn |-> "days_to_pull", last_observed |-> None, age_days |-> 0,
                  at |-> BackfillNow, done |-> FALSE, daily |-> 0, hourly |-> 0]
       \/ \E d \in AgeDays, sec \in AgeSeconds :
             call = [fn |-> "days_to_pull",
                     last_observed |-> BackfillNow - (d * SecondsPerDay + sec),
                     age_days |-> d,
                     at |-> BackfillNow, done |-> FALSE, daily |-> 0, hourly |-> 0]
    /\ NothingElse

NextBackfill == SizeBackfill

SpecBackfill == InitBackfill /\ [][NextBackfill]_vars

----------------------------------------------------------------------------
(* The lookback of the Series Client calls on its own *)

\* half the width of the windows of days values around 0 and the two caps
LookbackWindow == 4

\* the days values a caller may pass: around 0, around either cap, and 1000
LookbackDays ==
    (0 - LookbackWindow)..LookbackWindow
    \cup (HOURLY_MAX_DAYS_BACK - LookbackWindow)..(HOURLY_MAX_DAYS_BACK + LookbackWindow)
    \cup (BULK_DAYS_BACK - LookbackWindow)..(BULK_DAYS_BACK + LookbackWindow)
    \cup {1000}

\* the watermarks run_bulk_import may size the calls from: none, one later
\* than the clock, and ones a day, 89 to 91 days, and 400 days old
LookbackWatermarks ==
    {None} \cup {BackfillNow - d * SecondsPerDay : d \in {0 - 2, 1, 89, 90, 91, 400}}

\* fetch_daily_series(coin_id, days_for_daily) and
\* fetch_hourly_series(coin_id, days_for_hourly), up to the request they send
RequestSeries ==
    /\ call.fn = "fetch_series"
    /\ ~call.done
    /\ call' = [call EXCEPT !.done = TRUE,
                            !.daily = DailyLookback(call.days_for_daily),
                            !.hourly = HourlyLookback(call.days_for_hourly)]
    /\ NothingElseChanges

InitLookback ==
    /\ \/ \E d \in LookbackDays, h \in LookbackDays :
             call = [fn |-> "fetch_series", last_observed |-> None, sized |-> FALSE,
                     days_for_daily |-> d, days_for_hourly |-> h,
                     done |-> FALSE, daily |-> 0, hourly |-> 0]
       \/ \E w \in LookbackWatermarks :
             call = [fn |-> "fetch_series", last_observed |-> w, sized |-> TRUE,
                     days_for_daily |-> compute_daily_days_to_pull(w, BackfillNow),
                     days_for_hourly |-> compute_hourly_days_to_pull(w, BackfillNow),
                     done |-> FALSE, daily |-> 0, hourly |-> 0]
    /\ NothingElse

NextLookback == RequestSeries

SpecLookback == InitLookback /\ [][NextLookback]_vars

----------------------------------------------------------------------------
(* The Row Normalizer on its own *)

\* the longest price sequence of a payload the model follows
MaxPoints == 3

\* the instants of the samples: 01:00 and 23:00 of one day, 00:00 and 01:00
\* of the next
SampleTimes == {T1 + SecondsPerHour, T1 + 23 * SecondsPerHour, T2, T3}

\* a payload whose i-th price is i, so that a kept sample tells its place in
\* the input, and whose market caps are short by the given number of entries
RawPayload(times, short) ==
    [prices        |-> [i \in DOMAIN times |-> <<times[i] * MillisPerSecond, i>>],
     market_caps   |-> [i \in 1..(Len(times) - short) |->
                           <<times[i] * MillisPerSecond, 1000 * i>>],
     total_volumes |-> [i \in DOMAIN times |-> <<times[i] * MillisPerSecond, None>>]]

\* the payloads: up to MaxPoints samples in any order, instants repeated or
\* not, the market caps complete or one entry short
RawPayloads ==
    UNION {{RawPayload(times, short) : times \in [1..k -> SampleTimes],
                                       short \in {0, IF k > 0 THEN 1 ELSE 0}} :
              k \in 0..MaxPoints}

Normalize ==
    /\ call.fn = "normalize"
    /\ ~call.done
    /\ call' = [call EXCEPT !.done = TRUE,
                            !.daily = fetch_daily_series(call.payload),
                            !.hourly = fetch_hourly_series(call.payload)]
    /\ NothingElseChanges

InitNormalize ==
    /\ \E payload \in RawPayloads :
          call = [fn |-> "normalize", payload |-> payload, done |-> FALSE,
                  daily |-> <<>>, hourly |-> <<>>]
    /\ NothingElse

NextNormalize == Normalize

SpecNormalize == InitNormalize /\ [][NextNormalize]_vars

----------------------------------------------------------------------------
(* The ranking of the four groups on its own *)

\* the longest provider answer the ranking is followed for
MaxMarkets == 16

\* the i-th entry of the pool the answers are drawn from: the seventh is
\* DOGE with a large market cap, every fourth has no market cap, every fifth
\* a market cap that is not a number, the others tie now and then, one at 0
PoolCoin(i) ==
    IF i = 7 THEN Doge(500)
    ELSE Coin(ToString(i), ToString(i), ToString(i),
              IF i % 4 = 0 THEN None
              ELSE IF i % 5 = 0 THEN NotANumber
              ELSE ((i * 37) % 11) * 10)

\* an answer of k entries: the first k of the pool, rotated by r, in pool
\* order or reversed
PoolAnswer(k, r, reversed) ==
    [i \in 1..k |->
        LET j == ((i - 1 + r) % k) + 1
        IN  PoolCoin(IF reversed THEN k + 1 - j ELSE j)]

\* the entries at the even places of an answer: a category the seventh of
\* the pool is never part of
EvenPlaces(rows) == [i \in 1..(Len(rows) \div 2) |-> rows[2 * i]]

RankGroups ==
    /\ call.fn = "rank"
    /\ ~call.done
    /\ \E rows \in {group_rows([global |-> call.markets,
                                meme   |-> EvenPlaces(call.markets),
                                l1     |-> call.markets,
                                defi   |-> EvenPlaces(call.markets),
                                fault  |-> "none"])} :
          call' = [call EXCEPT !.done = TRUE,
                               !.rows = rows,
                               !.data = [g \in GroupTags |-> new_member_data_of(rows[g])]]
    /\ NothingElseChanges

InitRanking ==
    /\ \E k \in 0..MaxMarkets, reversed \in BOOLEAN :
          \E r \in 0..(IF k = 0 THEN 0 ELSE k - 1) :
             call = [fn |-> "rank", markets |-> PoolAnswer(k, r, reversed),
                     done |-> FALSE,
                     rows |-> [g \in GroupTags |-> <<>>],
                     data |-> [g \in GroupTags |-> <<>>]]
    /\ NothingElse

NextRanking == RankGroups

SpecRanking == InitRanking /\ [][NextRanking]_vars

----------------------------------------------------------------------------
(* The two paths side by side *)

\* the grouping runs that the model follows beside the ingestion runs
MaxBesideRuns == 1

\* the answers of the grouping run that built the registry: bitcoin and
\* tether in TOP15, bitcoin among the layer-1 coins as well
SeedMarkets ==
    [NoMarkets EXCEPT !.global = <<BTC(900), USDT(100)>>, !.l1 = <<BTC(900)>>]

\* the environments followed beside a grouping run: no failure, and no
\* points for at least one of the two grains
PathEnvs ==
    {e \in Envs : /\ e.fault = "none"
                  /\ e.daily = Payload(<<>>) \/ e.hourly = Payload(<<>>)}

\* the answers followed beside an ingestion run: no meme and no DeFi
\* candidates, and either no failure or a failing meme query after an empty
\* global answer
PathMarkets ==
    {m \in Markets : /\ m.meme = <<>> /\ m.defi = <<>>
                     /\ m.fault \in {"none", "fetch_meme"}
                     /\ m.fault = "fetch_meme" => m.global = <<>>}

ProcessAssetBeside == \E env \in PathEnvs : IngestAsset(env)

GroupRunBeside ==
    /\ group_runs < MaxBesideRuns
    /\ \E markets \in PathMarkets :
          \E left_order \in LeftOrders(crypto_asset_group, markets) :
              GroupSelect(markets, left_order)

InitPaths ==
    /\ now = T2 + 8999
    /\ \E left_order \in LeftOrders({}, SeedMarkets) :
         \E seeded \in {EndTransaction(EmptyGroupDb,
                           run_group_selector(EmptyGroupDb, SeedMarkets, left_order, T1))} :
            /\ crypto_asset = seeded.asset
            /\ crypto_group = seeded.group
            /\ crypto_asset_group = seeded.membership
            /\ crypto_asset_group_history = seeded.history
            /\ job_run_log = seeded.log
    /\ last_markets = SeedMarkets
    /\ group_runs = 0
    /\ crypto_asset_price_daily = {}
    /\ crypto_asset_price_hourly = {}
    /\ pc = "idle"
    /\ assets = <<>>
    /\ idx = 0
    /\ summary = NoSummary
    /\ txs = 0
    /\ last_env = NoEnv
    /\ call = NoCall

\* the runs of the two paths fall within one reading of the clock
NextPaths == StartRun \/ ProcessAssetBeside \/ FinishRun \/ GroupRunBeside

SpecPaths == InitPaths /\ [][NextPaths]_vars

----------------------------------------------------------------------------
(* The merge of the three sequences on its own *)

\* a payload whose three sequences have lengths of their own: the i-th price
\* is i at the instant times[i]; the i-th market cap is 1000 * i at an
\* instant i seconds after T1, which no price has; the i-th volume is
\* 10 * i, or missing when i is even, at instant 0
SkewedPayload(times, m, v) ==
    [prices        |-> [i \in DOMAIN times |-> <<times[i] * MillisPerSecond, i>>],
     market_caps   |-> [i \in 1..m |-> <<(T1 + i) * MillisPerSecond, 1000 * i>>],
     total_volumes |-> [i \in 1..v |-> <<0, IF i % 2 = 0 THEN None ELSE 10 * i>>]]

\* up to MaxPoints entries in each sequence, the prices in any order of
\* their instants
SkewedPayloads ==
    UNION {{SkewedPayload(times, m, v) : times \in [1..k -> SampleTimes],
                                         m \in 0..MaxPoints, v \in 0..MaxPoints} :
              k \in 0..MaxPoints}

InitMerge ==
    /\ \E payload \in SkewedPayloads :
          call = [fn |-> "normalize", payload |-> payload, done |-> FALSE,
                  daily |-> <<>>, hourly |-> <<>>]
    /\ NothingElse

NextMerge == Normalize

SpecMerge == InitMerge /\ [][NextMerge]_vars

----------------------------------------------------------------------------
(* Properties of the ingestion path *)

RowsOf(table, asset_id) == {x \in table : x.asset_id = asset_id}

KeysUnique(table) ==
    \A x, y \in table :
        (/\ x.asset_id = y.asset_id
         /\ x.observed_at = y.observed_at
         /\ x.currency_code = y.currency_code) => x = y

MaxObservedAt(rows) ==
    CHOOSE m \in {rows[i].observed_at : i \in DOMAIN rows} :
        \A i \in DOMAIN rows : rows[i].observed_at <= m

\* the loop pass under way handles this asset, and does not skip it
Ingesting(asset) ==
    /\ pc = "loop" /\ idx <= Len(assets) /\ asset = assets[idx]
    /\ run_daily(asset) \/ run_hourly(asset)

\* the tables after the step, as a transaction would see them
NextDb ==
    [asset  |-> crypto_asset',
     daily  |-> crypto_asset_price_daily',
     hourly |-> crypto_asset_price_hourly']

C1_Step(env) ==
    \A asset \in {assets[i] : i \in DOMAIN assets} :
        (Ingesting(asset) /\ IngestAsset(env) /\ env.fault = "none") =>
            LET again == bulk_insert_prices_and_update_last_observed(
                             NextDb, asset.id, days_daily(asset), days_hourly(asset), env)
            IN  \* a key conflict raises nothing
                /\ asset.coingecko_id \notin DOMAIN summary'.errors
                /\ summary'.per_asset_rows[asset.coingecko_id].hourly_error = NoError
                \* the same batch once more changes no price table
                /\ ~again.raised
                /\ again.db.daily = crypto_asset_price_daily'
                /\ again.db.hourly = crypto_asset_price_hourly'

\* C1 (dedup idempotence): a stored price point keeps its value through every
\* step, each key (asset, observed_at, currency) is stored once, a batch
\* with conflicting keys raises no error, and ingesting the same batch a
\* second time leaves both price tables as they are.
C1_DedupIdempotence ==
    /\ [](KeysUnique(crypto_asset_price_daily) /\ KeysUnique(crypto_asset_price_hourly))
    /\ [][/\ crypto_asset_price_daily \subseteq crypto_asset_price_daily'
          /\ crypto_asset_price_hourly \subseteq crypto_asset_price_hourly'
          /\ C1_Step(last_env')]_vars

\* a batch of two samples was ingested over a stored T1 whose price it revised:
\* the stored price 1 is kept beside the new T2 of price 2
C1_Witness ==
    /\ pc = "loop"
    /\ "bitcoin" \in DOMAIN summary.per_asset_rows
    /\ summary.per_asset_rows["bitcoin"].hourly_rows = 2
    /\ \E x, y \in RowsOf(crypto_asset_price_hourly, "bitcoin") :
          /\ x.observed_at = T1 /\ x.price = 1
          /\ y.observed_at = T2 /\ y.price = 2

C2_Step(env) ==
    \A asset \in {assets[i] : i \in DOMAIN assets} :
        (Ingesting(asset) /\ IngestAsset(env)) =>
            LET res     == AssetTx(asset, env)
                ok      == ~res.raised /\ ~res.aborted
                daily   == fetch_daily_series(env.daily)
                hourly  == fetch_hourly_series(env.hourly)
                before  == crypto_asset[asset.id]
                after   == crypto_asset'[asset.id]
            IN  /\ (ok /\ run_daily(asset) /\ daily # <<>>) =>
                      after.last_daily_observed_at =
                          Max(before.last_daily_observed_at, MaxObservedAt(daily))
                /\ (ok /\ run_hourly(asset) /\ hourly # <<>> /\ res.counts.hourly_error = NoError) =>
                      after.last_hourly_observed_at =
                          Max(before.last_hourly_observed_at, MaxObservedAt(hourly))
                /\ (daily # <<>> /\ MaxObservedAt(daily) <= before.last_daily_observed_at) =>
                      after.last_daily_observed_at = before.last_daily_observed_at
                /\ (hourly # <<>> /\ MaxObservedAt(hourly) <= before.last_hourly_observed_at) =>
                      after.last_hourly_observed_at = before.last_hourly_observed_at

DailyBatch(asset, env) ==
    IF run_daily(asset) THEN fetch_daily_series(env.daily) ELSE <<>>
HourlyBatch(asset, env) ==
    IF run_hourly(asset) THEN fetch_hourly_series(env.hourly) ELSE <<>>

\* the hourly fetch, or the hourly insert, of the pass raises
HourlyRaises(asset, env) ==
    \/ env.fault = "hourly_fetch" /\ run_hourly(asset)
    \/ /\ env.fault \in {"hourly_insert", "hourly_insert_abort"}
       /\ HourlyBatch(asset, env) # <<>>

C3_Step(env) ==
    \A asset \in {assets[i] : i \in DOMAIN assets} :
        (Ingesting(asset) /\ IngestAsset(env) /\ HourlyRaises(asset, env)) =>
            LET daily  == DailyBatch(asset, env)
                coin   == asset.coingecko_id
            IN  /\ crypto_asset_price_daily' =
                      InsertPrices(crypto_asset_price_daily, asset.id, daily)
                /\ daily # <<>> =>
                      crypto_asset'[asset.id].last_daily_observed_at =
                          Max(crypto_asset[asset.id].last_daily_observed_at,
                              MaxObservedAt(daily))
                /\ crypto_asset'[asset.id].last_hourly_observed_at =
                      crypto_asset[asset.id].last_hourly_observed_at
                /\ coin \in DOMAIN summary'.per_asset_rows
                /\ summary'.per_asset_rows[coin].hourly_error # NoError
                /\ pc' = "loop" /\ idx' = idx + 1

\* C3 (partial failure isolation): when the hourly fetch or the hourly insert
\* of an asset raises, the daily points and the daily watermark advance of
\* the same pass are committed, the hourly watermark is unchanged, the error
\* is recorded as the asset's hourly error, and the loop goes on.
C3_HourlyFailureIsolated == [][C3_Step(last_env')]_vars

\* C4 (run status): the recorded status is "success" exactly when no asset
\* errored in the run, a raised hourly fetch included, and "partial_success"
\* otherwise.
C4_RunStatus ==
    BULK_IMPORT_JOB_NAME \in DOMAIN job_run_log =>
        LET row == job_run_log[BULK_IMPORT_JOB_NAME]
            d   == row.details
        IN  /\ row.last_status \in {"success", "partial_success"}
            /\ "errors" \in DOMAIN d =>
                  (row.last_status = "success" <=>
                      /\ DOMAIN d.errors = {}
                      /\ \A c \in DOMAIN d.per_asset_rows :
                            d.per_asset_rows[c].hourly_error = NoError)

\* what the pass leaves when the asset's transaction is rolled back: no table
\* changed, the asset in the error map, the earlier records of the summary as
\* they were, the loop going on
RolledBackAndReported(asset) ==
    /\ crypto_asset' = crypto_asset
    /\ crypto_asset_price_daily' = crypto_asset_price_daily
    /\ crypto_asset_price_hourly' = crypto_asset_price_hourly
    /\ asset.coingecko_id \in DOMAIN summary'.errors
    /\ summary'.per_asset_rows = summary.per_asset_rows
    /\ \A c \in DOMAIN summary.errors : c \in DOMAIN summary'.errors
    /\ pc' = "loop" /\ idx' = idx + 1

\* the daily fetch of the pass raises, or one of its store writes does
DailyFetchOrStoreWriteRaises(asset, env) ==
    \/ env.fault = "daily_fetch" /\ run_daily(asset)
    \/ env.fault \in {"daily_insert", "daily_update"} /\ DailyBatch(asset, env) # <<>>
    \/ /\ env.fault \in {"hourly_insert", "hourly_insert_abort", "hourly_update"}
       /\ HourlyBatch(asset, env) # <<>>

UncaughtRaises(asset, env) ==
    \/ env.fault = "daily_fetch" /\ run_daily(asset)
    \/ env.fault \in {"daily_insert", "daily_update"} /\ DailyBatch(asset, env) # <<>>
    \/ env.fault = "hourly_update" /\ HourlyBatch(asset, env) # <<>>
    \/ /\ env.fault = "hourly_insert_abort"
       /\ HourlyBatch(asset, env) # <<>> /\ DailyBatch(asset, env) # <<>>

----------------------------------------------------------------------------
(* Properties of the grouping path *)

\* In the steps below a value that is used many times is bound by a
\* quantifier over a singleton, so that it is computed once.

\* the step is a grouping run that met no fault, and so committed
GroupRunCommits ==
    /\ group_runs' = group_runs + 1
    /\ last_markets'.fault = "none"

\* the events that the step appended to the ledger
EmittedEvents ==
    SubSeq(crypto_asset_group_history', Len(crypto_asset_group_history) + 1,
           Len(crypto_asset_group_history'))

\* the positions of the events of one asset in one group
EventsOf(events, asset_id, group_id) ==
    {i \in DOMAIN events : events[i].asset_id = asset_id /\ events[i].group_id = group_id}

OldMembers(group_id) == get_current_group_members(crypto_asset_group, group_id)

\* C6: a committed grouping run appends, for every group, exactly one LEFT
\* event without rank and market cap for each asset of old_members minus
\* new_members, exactly one JOINED event with the asset's rank and market cap
\* in the new ranking for each asset of new_members minus old_members, and no
\* event for an asset of both sets; the ledger is only appended to.
C6_Step ==
    GroupRunCommits =>
        \A emitted \in {EmittedEvents} : \A rows \in {group_rows(last_markets')} :
            /\ Len(crypto_asset_group_history') >= Len(crypto_asset_group_history)
            /\ SubSeq(crypto_asset_group_history', 1, Len(crypto_asset_group_history))
                 = crypto_asset_group_history
            /\ \A g \in GroupTags :
                  LET old_members == OldMembers(g)
                      new_members == Range(IdsOf(rows[g]))
                  IN  /\ \A a \in old_members \ new_members :
                            \E i \in DOMAIN emitted :
                                /\ EventsOf(emitted, a, g) = {i}
                                /\ emitted[i].event_type = "LEFT"
                                /\ emitted[i].market_cap_usd = None
                                /\ emitted[i].rank_in_group = None
                      /\ \A r \in DOMAIN rows[g] :
                            rows[g][r].id \notin old_members =>
                                \E i \in DOMAIN emitted :
                                    /\ EventsOf(emitted, rows[g][r].id, g) = {i}
                                    /\ emitted[i].event_type = "JOINED"
                                    /\ emitted[i].market_cap_usd = safe_mcap(rows[g][r])
                                    /\ emitted[i].rank_in_group = r
                      /\ \A a \in old_members \cap new_members :
                            EventsOf(emitted, a, g) = {}
                      /\ \A i \in DOMAIN emitted :
                            emitted[i].group_id = g =>
                                emitted[i].asset_id \in (old_members \cup new_members)
            /\ \A i \in DOMAIN emitted : emitted[i].group_id \in GroupTags

C6_MembershipDiff == [][C6_Step]_vars

\* a second committed run after which the ledger holds a LEFT event of
\* bitcoin and a JOINED event of dogecoin at rank 2 for the group TOP15, while
\* tether, a member before and after, has moved from rank 2 to rank 1 and
\* has the one event of its first joining
C6_Witness ==
    /\ group_runs = 2
    /\ last_markets.fault = "none"
    /\ IdsOf(group_rows(last_markets)[TOP15_TAG]) = <<"tether", DOGE>>
    /\ \E i \in DOMAIN crypto_asset_group_history :
          crypto_asset_group_history[i] =
              [asset_id |-> "bitcoin", group_id |-> TOP15_TAG, event_type |-> "LEFT",
               event_timestamp |-> now, market_cap_usd |-> None, rank_in_group |-> None]
    /\ \E i \in DOMAIN crypto_asset_group_history :
          crypto_asset_group_history[i] =
              [asset_id |-> DOGE, group_id |-> TOP15_TAG, event_type |-> "JOINED",
               event_timestamp |-> now, market_cap_usd |-> 20, rank_in_group |-> 2]
    /\ \E i \in DOMAIN crypto_asset_group_history :
          /\ EventsOf(crypto_asset_group_history, "tether", TOP15_TAG) = {i}
          /\ crypto_asset_group_history[i].event_type = "JOINED"
          /\ crypto_asset_group_history[i].rank_in_group = 2

\* C7: after a committed grouping run the stored members of each of the four
\* groups are exactly the members computed by that run, and the events of the
\* run are the difference against the membership the transaction found: LEFT
\* for what it found and did not compute, JOINED for what it computed and did
\* not find.  A run that raises leaves the membership as it was.
C7_Step ==
    /\ GroupRunCommits =>
          \A emitted \in {EmittedEvents} : \A rows \in {group_rows(last_markets')} :
              \A g \in GroupTags :
                  LET old_members == OldMembers(g)
                      new_members == Range(IdsOf(rows[g]))
                      recorded(event_type) ==
                          {emitted[i].asset_id :
                              i \in {j \in DOMAIN emitted :
                                       /\ emitted[j].group_id = g
                                       /\ emitted[j].event_type = event_type}}
                  IN  /\ get_current_group_members(crypto_asset_group', g) = new_members
                      /\ recorded("LEFT") = old_members \ new_members
                      /\ recorded("JOINED") = new_members \ old_members
    /\ (group_runs' = group_runs + 1 /\ last_markets'.fault # "none") =>
          crypto_asset_group' = crypto_asset_group

C7_MembershipReplacement ==
    /\ [](\A m \in crypto_asset_group : m.group_id \in GroupTags)
    /\ [][C7_Step]_vars

\* a second committed run that rebuilt TOP15 as tether and dogecoin: bitcoin,
\* a member of the previous set, has its LEFT event and no membership row
C7_Witness ==
    /\ group_runs = 2
    /\ last_markets.fault = "none"
    /\ get_current_group_members(crypto_asset_group, TOP15_TAG) = {"tether", DOGE}
    /\ get_current_group_members(crypto_asset_group, MEME_TAG) = {"shiba-inu", DOGE}
    /\ \E i \in DOMAIN crypto_asset_group_history :
          /\ crypto_asset_group_history[i].asset_id = "bitcoin"
          /\ crypto_asset_group_history[i].group_id = TOP15_TAG
          /\ crypto_asset_group_history[i].event_type = "LEFT"
          /\ \A j \in EventsOf(crypto_asset_group_history, "bitcoin", TOP15_TAG) : j <= i

----------------------------------------------------------------------------
(* Properties of the MEME selection *)

\* the call of the selection has returned
Selected == call.fn = "meme_rows" /\ call.done

\* the ranked top-N of the category answer of the call
RankedTop == Take(SortedByMcapDesc(call.meme_markets), MEME_TOP_N)

InCategory(id) == id \in Range(IdsOf(call.meme_markets))

InGlobal(id) == id \in Range(IdsOf(call.global_markets))

\* C8 as stated: when the ranked top-N excludes DOGE the group has N+1
\* members, the N ranked ones and then DOGE; otherwise it has exactly the N
\* ranked members.
C8_OverrideGivesNPlusOne ==
    Selected =>
        IF DOGE \notin Range(IdsOf(RankedTop))
        THEN /\ Len(call.result) = MEME_TOP_N + 1
             /\ SubSeq(call.result, 1, MEME_TOP_N) = RankedTop
             /\ call.result[MEME_TOP_N + 1].id = DOGE
        ELSE /\ Len(call.result) = MEME_TOP_N
             /\ call.result = RankedTop

\* C8, amended: the ranked top-N is the N first candidates, or all of them
\* when there are fewer.  If it excludes DOGE and DOGE is in the category
\* answer or in the global answer, the group is the ranked top-N unchanged
\* with the row of DOGE appended last, the row of the category answer first;
\* if DOGE is in neither answer the group is the ranked top-N alone; if the
\* ranked top-N includes DOGE the group is exactly the ranked top-N.
C8_MandatoryOverride ==
    Selected =>
        /\ Len(RankedTop) = Min(MEME_TOP_N, Len(call.meme_markets))
        /\ IF DOGE \in Range(IdsOf(RankedTop))
           THEN call.result = RankedTop
           ELSE IF InCategory(DOGE) \/ InGlobal(DOGE)
           THEN /\ Len(call.result) = Len(RankedTop) + 1
                /\ SubSeq(call.result, 1, Len(RankedTop)) = RankedTop
                /\ call.result[Len(call.result)].id = DOGE
                /\ call.result[Len(call.result)].market_cap
                     = IF InCategory(DOGE) THEN 20 ELSE 21
           ELSE call.result = RankedTop

\* six candidates with DOGE the sixth by market cap: the five ranked members
\* and DOGE behind them
C8_Witness ==
    /\ Selected
    /\ Len(call.meme_markets) = 6
    /\ InCategory(DOGE)
    /\ DOGE \notin Range(IdsOf(RankedTop))
    /\ Len(call.result) = MEME_TOP_N + 1
    /\ call.result[MEME_TOP_N + 1].id = DOGE

\* C9 as stated: when DOGE is nowhere in the category answer the group is the
\* ranked top-N alone, without DOGE.
C9_AbsentFromCategoryMeansLeftOut ==
    (Selected /\ ~InCategory(DOGE)) =>
        /\ call.result = RankedTop
        /\ DOGE \notin Range(IdsOf(call.result))

\* C9, amended: when DOGE is neither in the category answer nor in the global
\* answer of the run, the group is the ranked top-N alone, without DOGE, and
\* the selection returns; when DOGE is missing from the category answer and
\* present in the global answer, its global row is appended to the ranked
\* top-N.
C9_MandatoryAbsent ==
    Selected =>
        /\ (~InCategory(DOGE) /\ ~InGlobal(DOGE)) =>
              /\ call.result = RankedTop
              /\ DOGE \notin Range(IdsOf(call.result))
        /\ (~InCategory(DOGE) /\ InGlobal(DOGE)) =>
              call.result = RankedTop \o <<Doge(21)>>

\* six candidates and DOGE in neither answer: the group is the five ranked
\* members
C9_Witness ==
    /\ Selected
    /\ Len(call.meme_markets) = 6
    /\ ~InCategory(DOGE)
    /\ ~InGlobal(DOGE)
    /\ Len(call.result) = MEME_TOP_N
    /\ call.result = RankedTop

----------------------------------------------------------------------------
(* Properties of the freshness decisions *)

\* C10: each decision is true exactly when the watermark is absent or its age
\* has reached the threshold of the grain, 2.5 h for hourly and 23 h for
\* daily: false one second below the threshold, true at the threshold, and
\* neither decision depends on the threshold of the other grain.
C10_FreshnessDecision ==
    (call.fn = "should_run" /\ call.done) =>
        /\ call.hourly = (\/ call.last_observed = None
                          \/ call.at - call.last_observed >= HOURLY_MIN_AGE_SECONDS)
        /\ call.daily = (\/ call.last_observed = None
                         \/ call.at - call.last_observed >= DAILY_MIN_AGE_SECONDS)

\* a watermark exactly 2.5 h old: hourly is due, daily is not
C10_Witness ==
    /\ call.fn = "should_run"
    /\ call.done
    /\ call.last_observed # None
    /\ call.at - call.last_observed = HOURLY_MIN_AGE_SECONDS
    /\ call.hourly
    /\ ~call.daily

----------------------------------------------------------------------------
(* Properties of the backfill sizing *)

\* what the claim gives for a watermark of the given age under the given cap
DaysToPull(absent, age_days, max_lookback_days) ==
    IF absent \/ age_days >= max_lookback_days THEN max_lookback_days
    ELSE Min(max_lookback_days, Max(1, age_days + 2))

\* C11: the lookback is the cap when the watermark is absent or at least the
\* cap in whole days old, and otherwise the age in whole days plus 2, raised
\* to 1 and cut at the cap; it always lies between 1 and the cap, also for a
\* watermark later than the clock; age 10 under cap 365 gives 12, age 400
\* gives 365.
C11_BackfillSizing ==
    (call.fn = "days_to_pull" /\ call.done) =>
        LET absent == call.last_observed = None
        IN  /\ call.daily = DaysToPull(absent, call.age_days, BULK_DAYS_BACK)
            /\ call.hourly = DaysToPull(absent, call.age_days, HOURLY_MAX_DAYS_BACK)
            /\ call.daily \in 1..BULK_DAYS_BACK
            /\ call.hourly \in 1..HOURLY_MAX_DAYS_BACK
            /\ (~absent /\ call.age_days = 10) => call.daily = 12
            /\ (~absent /\ call.age_days = 400) => call.daily = 365
            /\ absent => call.daily = 365

\* a watermark later than the clock by more than two days: both lookbacks
\* are 1
C11_Witness ==
    /\ call.fn = "days_to_pull"
    /\ call.done
    /\ call.last_observed # None
    /\ call.last_observed > call.at + 2 * SecondsPerDay
    /\ call.daily = 1
    /\ call.hourly = 1

----------------------------------------------------------------------------
(* Properties of the Row Normalizer *)

Normalized == call.fn = "normalize" /\ call.done

\* the canonical point of the i-th sample of the payload of the call
SamplePoint(i) ==
    [observed_at    |-> call.payload.prices[i][1] \div MillisPerSecond,
     price          |-> call.payload.prices[i][2],
     market_cap_usd |-> call.payload.market_caps[i][2],
     volume_24h_usd |-> call.payload.total_volumes[i][2]]

Ascending(rows) ==
    \A i, j \in DOMAIN rows : i < j => rows[i].observed_at <= rows[j].observed_at

\* the normalizer outputs are what the claim says of the first n samples
CollapsesAndKeeps(n) ==
    LET dates    == {DateOf(SamplePoint(i).observed_at) : i \in 1..n}
        last(d)  == CHOOSE i \in 1..n :
                       /\ DateOf(SamplePoint(i).observed_at) = d
                       /\ \A j \in 1..n :
                             DateOf(SamplePoint(j).observed_at) = d =>
                                \/ SamplePoint(j).observed_at < SamplePoint(i).observed_at
                                \/ (SamplePoint(j).observed_at = SamplePoint(i).observed_at
                                    /\ j <= i)
    IN  /\ Len(call.daily) = Cardinality(dates)
        /\ Range(call.daily) = {SamplePoint(last(d)) : d \in dates}
        /\ Ascending(call.daily)
        /\ Len(call.hourly) = n
        /\ Range(call.hourly) = {SamplePoint(i) : i \in 1..n}
        /\ Ascending(call.hourly)

\* C12 as stated: one daily point for every date of the payload, the last
\* sample of the date, and every sample of the payload in the hourly output.
C12_EverySampleCounts ==
    Normalized =>
        /\ Len(call.daily) = Cardinality({DateOf(call.payload.prices[i][1] \div MillisPerSecond) :
                                             i \in DOMAIN call.payload.prices})
        /\ Len(call.hourly) = Len(call.payload.prices)

\* C12, amended: the samples that count are those the three sequences of the
\* payload have in common by position, up to the length of the shortest.  Of
\* these the daily output has exactly one point per UTC date, the
\* chronologically last of the date (the later in the payload of two with
\* the same instant), sorted ascending, and the hourly output has every one
\* of them, sorted ascending.
C12_DailyCollapse ==
    Normalized =>
        CollapsesAndKeeps(Min(Len(call.payload.prices),
                              Min(Len(call.payload.market_caps),
                                  Len(call.payload.total_volumes))))

\* samples of 23:00 and 01:00 of one day, in this order, and one of the next
\* day: the daily output is the 23:00 sample and the sample of the next day
C12_Witness ==
    /\ Normalized
    /\ Len(call.payload.market_caps) = 3
    /\ call.payload.prices[1][1] = (T1 + 23 * SecondsPerHour) * MillisPerSecond
    /\ call.payload.prices[2][1] = (T1 + SecondsPerHour) * MillisPerSecond
    /\ call.payload.prices[3][1] = T2 * MillisPerSecond
    /\ Len(call.daily) = 2
    /\ call.daily[1].price = 1
    /\ call.daily[2].price = 3
    /\ Len(call.hourly) = 3

----------------------------------------------------------------------------
(* Properties of the ranking *)

Ranked == call.fn = "rank" /\ call.done

\* the ranking key of the claim: the market cap, or zero when it is missing
\* or not a number
RankingKey(coin_row) ==
    IF coin_row.market_cap = None \/ coin_row.market_cap = NotANumber THEN 0
    ELSE coin_row.market_cap

\* rows are top_n entries of candidates (all of them when there are fewer),
\* none below an entry left out, in descending order of the key, and data
\* numbers them 1..k in that order
IsRankedTop(rows, data, candidates, top_n) ==
    /\ Len(rows) = Min(top_n, Len(candidates))
    /\ Range(rows) \subseteq Range(candidates)
    /\ Cardinality(Range(rows)) = Len(rows)
    /\ \A i, j \in DOMAIN rows : i < j => RankingKey(rows[i]) >= RankingKey(rows[j])
    /\ \A x \in Range(candidates) \ Range(rows) :
          \A i \in DOMAIN rows : RankingKey(rows[i]) >= RankingKey(x)
    /\ DOMAIN data = DOMAIN rows
    /\ \A i \in DOMAIN rows :
          data[i] = [asset_id |-> rows[i].id, market_cap |-> RankingKey(rows[i]), rank |-> i]

\* C13 as stated: each of the four groups is the ranked top-N of its
\* candidates, in descending order of market cap, with the ranks 1..k.
C13_EveryGroupRanked ==
    Ranked =>
        /\ IsRankedTop(call.rows[TOP15_TAG], call.data[TOP15_TAG], call.markets, TOP15_SIZE)
        /\ IsRankedTop(call.rows[MEME_TAG], call.data[MEME_TAG],
                       EvenPlaces(call.markets), MEME_TOP_N)
        /\ IsRankedTop(call.rows[L1_TAG], call.data[L1_TAG], call.markets, L1_TOP_N)
        /\ IsRankedTop(call.rows[DEFI_TAG], call.data[DEFI_TAG],
                       EvenPlaces(call.markets), DEFI_TOP_N)

\* C13, amended: TOP15, L1 and DEFI are the ranked top-N of their candidates
\* (the global answer for TOP15), in descending order of market cap with a
\* missing or non-numeric market cap counted as zero and no candidate
\* dropped for it, ranks 1..k in that order.  The members of MEME before an
\* appended DOGE are ranked in the same way; an appended DOGE is the last
\* member and has the next rank whatever its market cap.
C13_Ranking ==
    Ranked =>
        /\ IsRankedTop(call.rows[TOP15_TAG], call.data[TOP15_TAG], call.markets, TOP15_SIZE)
        /\ IsRankedTop(call.rows[L1_TAG], call.data[L1_TAG], call.markets, L1_TOP_N)
        /\ IsRankedTop(call.rows[DEFI_TAG], call.data[DEFI_TAG],
                       EvenPlaces(call.markets), DEFI_TOP_N)
        /\ \E n \in {Min(MEME_TOP_N, Len(EvenPlaces(call.markets)))} :
              /\ Len(call.rows[MEME_TAG]) \in {n, n + 1}
              /\ IsRankedTop(SubSeq(call.rows[MEME_TAG], 1, n),
                             SubSeq(call.data[MEME_TAG], 1, n),
                             EvenPlaces(call.markets), MEME_TOP_N)
              /\ Len(call.rows[MEME_TAG]) = n + 1 =>
                    /\ call.rows[MEME_TAG][n + 1].id = DOGE
                    /\ call.data[MEME_TAG][n + 1] =
                          [asset_id |-> DOGE,
                           market_cap |-> RankingKey(call.rows[MEME_TAG][n + 1]),
                           rank |-> n + 1]

\* sixteen entries in the answer: TOP15 has fifteen of them, an entry without
\* a market cap among them, and the one left out has the key zero
C13_Witness ==
    /\ Ranked
    /\ Len(call.markets) = 16
    /\ Len(call.rows[TOP15_TAG]) = TOP15_SIZE
    /\ \E i \in DOMAIN call.rows[TOP15_TAG] : call.rows[TOP15_TAG][i].market_cap = None
    /\ \E x \in Range(call.markets) \ Range(call.rows[TOP15_TAG]) : RankingKey(x) = 0
    /\ call.data[TOP15_TAG][1].asset_id = DOGE
    /\ call.data[L1_TAG][5].rank = 5

----------------------------------------------------------------------------
(* Properties of the active flag *)

\* C14: from the first committed grouping run on, every asset of the registry
\* is active exactly when it has a membership row in some group (before the
\* first committed run the registry is empty).
C14_ActiveFlag ==
    \A a \in DOMAIN crypto_asset :
        crypto_asset[a].is_active <=> (\E m \in crypto_asset_group : m.asset_id = a)

\* after a second committed run bitcoin, a member of TOP15 and of L1 before,
\* is in no group and inactive, while tether and dogecoin are members and
\* active
C14_Witness ==
    /\ group_runs = 2
    /\ last_markets.fault = "none"
    /\ "bitcoin" \in DOMAIN crypto_asset
    /\ ~crypto_asset["bitcoin"].is_active
    /\ \E i \in DOMAIN crypto_asset_group_history :
          /\ crypto_asset_group_history[i].asset_id = "bitcoin"
          /\ crypto_asset_group_history[i].group_id = L1_TAG
          /\ crypto_asset_group_history[i].event_type = "LEFT"
    /\ get_current_group_members(crypto_asset_group, TOP15_TAG) = {"tether", DOGE}
    /\ crypto_asset["tether"].is_active
    /\ crypto_asset[DOGE].is_active

----------------------------------------------------------------------------
(* Properties of the failure handling of the grouping path *)

\* C15: a grouping run in which the query of one category raises is not
\* aborted: the group TOP15, computed from the global answer before that
\* query, is still rebuilt, its events are recorded, and the run is logged.
C15_Step ==
    (/\ group_runs' = group_runs + 1
     /\ last_markets'.fault \in {"fetch_meme", "fetch_l1", "fetch_defi"}) =>
        \A rows \in {top15_rows(last_markets'.global)} :
            /\ get_current_group_members(crypto_asset_group', TOP15_TAG) = Range(IdsOf(rows))
            /\ \A a \in Range(IdsOf(rows)) \ OldMembers(TOP15_TAG) :
                  \E i \in DOMAIN EmittedEvents :
                      /\ EmittedEvents[i].asset_id = a
                      /\ EmittedEvents[i].group_id = TOP15_TAG
                      /\ EmittedEvents[i].event_type = "JOINED"
            /\ GROUP_SELECTOR_JOB_NAME \in DOMAIN job_run_log'

C15_GroupFailureContained == [][C15_Step]_vars

----------------------------------------------------------------------------
(* Properties of the run summary *)

\* C16: when an ingestion run ends, the summary it records has, for every
\* asset read in step 1, either the row counts of the asset or its error
\* string.
C16_Step ==
    (pc = "loop" /\ pc' = "idle") =>
        /\ BULK_IMPORT_JOB_NAME \in DOMAIN job_run_log'
        /\ \A details \in {job_run_log'[BULK_IMPORT_JOB_NAME].details} :
              \A i \in DOMAIN assets :
                  \/ assets[i].coingecko_id \in DOMAIN details.per_asset_rows
                  \/ assets[i].coingecko_id \in DOMAIN details.errors

C16_NoSilentDrop == [][C16_Step]_vars

----------------------------------------------------------------------------
(* Properties of the per-grain decisions *)

\* the loop pass of this step is the one of assets[idx]
LoopPass == pc = "loop" /\ idx <= Len(assets) /\ idx' = idx + 1

\* the transaction of the pass never reads the provider's answer for the
\* grain, nor meets a failure of that grain's call: whatever the answer, the
\* transaction does the same
DailyNeverFetched(asset, env) ==
    \A res \in {AssetTx(asset, env)} :
        \A p \in Payloads, f \in {env.fault, "daily_fetch"} :
            (f = "daily_fetch" => env.fault = "none") =>
                AssetTx(asset, [env EXCEPT !.daily = p, !.fault = f]) = res

HourlyNeverFetched(asset, env) ==
    \A res \in {AssetTx(asset, env)} :
        \A p \in Payloads, f \in {env.fault, "hourly_fetch"} :
            (f = "hourly_fetch" => env.fault = "none") =>
                AssetTx(asset, [env EXCEPT !.hourly = p, !.fault = f]) = res

C17_Step(env) ==
    LoopPass =>
        \A asset \in {assets[idx]} :
            /\ ~run_daily(asset) =>
                  /\ DailyNeverFetched(asset, env)
                  /\ RowsOf(crypto_asset_price_daily', asset.id) =
                         RowsOf(crypto_asset_price_daily, asset.id)
                  /\ crypto_asset'[asset.id].last_daily_observed_at =
                         crypto_asset[asset.id].last_daily_observed_at
            /\ ~run_hourly(asset) =>
                  /\ HourlyNeverFetched(asset, env)
                  /\ RowsOf(crypto_asset_price_hourly', asset.id) =
                         RowsOf(crypto_asset_price_hourly, asset.id)
                  /\ crypto_asset'[asset.id].last_hourly_observed_at =
                         crypto_asset[asset.id].last_hourly_observed_at
            /\ (~run_daily(asset) /\ ~run_hourly(asset)) =>
                  /\ env = NoEnv
                  /\ UNCHANGED <<crypto_asset, crypto_asset_price_daily,
                                 crypto_asset_price_hourly, job_run_log>>
            \* the passes of the other assets of the run leave this one alone
            /\ \A a \in DOMAIN crypto_asset \ {asset.id} :
                  /\ crypto_asset'[a] = crypto_asset[a]
                  /\ RowsOf(crypto_asset_price_daily', a) = RowsOf(crypto_asset_price_daily, a)
                  /\ RowsOf(crypto_asset_price_hourly', a) = RowsOf(crypto_asset_price_hourly, a)

\* C17 (fresh grain skipped): in a loop pass, a grain of the asset whose
\* should_run is false gets no Series Client call, and the asset's rows in
\* that grain's price table and its watermark of that grain are unchanged;
\* when both grains are fresh there is no fetch and no store write at all.
C17_FreshGrainSkipped == [][C17_Step(last_env')]_vars

\* a pass at T2 + 23h, for an asset whose daily watermark T3 is 22 hours old
\* and whose hourly watermark is older: the daily grain was skipped while
\* the hourly grain stored new rows
C17_Witness ==
    /\ pc = "loop" /\ idx = 2 /\ now = T2 + 82800
    /\ assets[1].last_daily_observed_at = T3
    /\ assets[1].last_hourly_observed_at < T3
    /\ assets[1].coingecko_id \in DOMAIN summary.per_asset_rows
    /\ summary.per_asset_rows[assets[1].coingecko_id].daily_rows = 0
    /\ summary.per_asset_rows[assets[1].coingecko_id].hourly_rows > 0
    /\ last_env.daily # Payload(<<>>)
    /\ crypto_asset[assets[1].id].last_hourly_observed_at = T3

----------------------------------------------------------------------------
(* Properties of empty answers *)

\* the pass asks for the grain, and the provider has no points for it
DailyEmpty(asset, env) ==
    run_daily(asset) /\ env.fault # "daily_fetch" /\ fetch_daily_series(env.daily) = <<>>
HourlyEmpty(asset, env) ==
    run_hourly(asset) /\ env.fault # "hourly_fetch" /\ fetch_hourly_series(env.hourly) = <<>>

\* the members of the group as stored after the step
MembersAfter(group_id) == get_current_group_members(crypto_asset_group', group_id)

C18_IngestStep(env) ==
    LoopPass =>
        \A asset \in {assets[idx]} :
            /\ DailyEmpty(asset, env) =>
                  /\ crypto_asset_price_daily' = crypto_asset_price_daily
                  /\ crypto_asset'[asset.id].last_daily_observed_at =
                         crypto_asset[asset.id].last_daily_observed_at
            /\ HourlyEmpty(asset, env) =>
                  /\ crypto_asset_price_hourly' = crypto_asset_price_hourly
                  /\ crypto_asset'[asset.id].last_hourly_observed_at =
                         crypto_asset[asset.id].last_hourly_observed_at
            /\ ((DailyEmpty(asset, env) \/ HourlyEmpty(asset, env)) /\ env.fault = "none") =>
                  /\ summary'.errors = summary.errors
                  /\ asset.coingecko_id \in DOMAIN summary'.per_asset_rows
                  /\ \A counts \in {summary'.per_asset_rows[asset.coingecko_id]} :
                        /\ counts.hourly_error = NoError
                        /\ DailyEmpty(asset, env) => counts.daily_rows = 0
                        /\ HourlyEmpty(asset, env) => counts.hourly_rows = 0

\* a run in which nothing raised is recorded as a success
C18_StatusStep ==
    (pc = "loop" /\ pc' = "idle" /\ DOMAIN summary.errors = {}) =>
        job_run_log'[BULK_IMPORT_JOB_NAME].last_status = "success"

\* a grouping run whose queries all answer: it commits, and its record in
\* the job log is the one of this run
GroupRunAnswered ==
    /\ group_runs' = group_runs + 1
    /\ last_markets'.fault = "none"

GroupRunSucceeds ==
    /\ GROUP_SELECTOR_JOB_NAME \in DOMAIN job_run_log'
    /\ job_run_log'[GROUP_SELECTOR_JOB_NAME].last_status = "success"
    /\ job_run_log'[GROUP_SELECTOR_JOB_NAME].last_run_at = now

\* C18 as claimed (empty result is not an error): a provider answer without
\* points inserts nothing, leaves the watermark, records no error and does
\* not degrade the status; a category query without candidates raises
\* nothing and leaves that group, the meme group included, without members.
C18_EmptyCategoryEmptyGroup ==
    [][/\ C18_IngestStep(last_env')
       /\ C18_StatusStep
       /\ GroupRunAnswered =>
             /\ GroupRunSucceeds
             /\ last_markets'.meme = <<>> => MembersAfter(MEME_TAG) = {}
             /\ last_markets'.l1 = <<>> => MembersAfter(L1_TAG) = {}
             /\ last_markets'.defi = <<>> => MembersAfter(DEFI_TAG) = {}]_vars

\* C18 (empty result is not an error), amended: a provider answer without
\* points inserts nothing, leaves the watermark, records no error and does
\* not degrade the status; a category query without candidates raises
\* nothing and leaves that group without members, except that the meme
\* group then has dogecoin as its only member when the global answer lists
\* dogecoin.
C18_EmptyResultNoError ==
    [][/\ C18_IngestStep(last_env')
       /\ C18_StatusStep
       /\ GroupRunAnswered =>
             /\ GroupRunSucceeds
             /\ last_markets'.meme = <<>> =>
                   MembersAfter(MEME_TAG) = {DOGE} \cap Range(IdsOf(last_markets'.global))
             /\ last_markets'.l1 = <<>> => MembersAfter(L1_TAG) = {}
             /\ last_markets'.defi = <<>> => MembersAfter(DEFI_TAG) = {}]_vars

\* a grouping run got no layer-1 and no meme candidates: the layer-1 group,
\* which had bitcoin, has no member and the meme group has dogecoin from the
\* global answer; and the pass of an ingestion run got no daily points: the
\* asset has its hourly rows and hourly watermark, no daily row, no daily
\* watermark and no error
C18_Witness ==
    /\ group_runs = 1 /\ last_markets.fault = "none"
    /\ last_markets.l1 = <<>> /\ last_markets.meme = <<>>
    /\ get_current_group_members(crypto_asset_group, L1_TAG) = {}
    /\ get_current_group_members(crypto_asset_group, MEME_TAG) = {DOGE}
    /\ job_run_log[GROUP_SELECTOR_JOB_NAME].last_run_at = now
    /\ pc = "loop" /\ idx = 2
    /\ last_env.daily = Payload(<<>>) /\ last_env.hourly # Payload(<<>>)
    /\ summary.errors = <<>>
    /\ summary.per_asset_rows[assets[1].coingecko_id].daily_rows = 0
    /\ summary.per_asset_rows[assets[1].coingecko_id].hourly_rows > 0
    /\ RowsOf(crypto_asset_price_daily, assets[1].id) = {}
    /\ crypto_asset[assets[1].id].last_daily_observed_at = None
    /\ crypto_asset[assets[1].id].last_hourly_observed_at # None

----------------------------------------------------------------------------
(* Properties of the two paths side by side *)

\* the step is a grouping run; every other step is one of the ingestion
\* path, or the clock
GroupingStep == group_runs' # group_runs

\* the row of a job in the log is as it was
SameLogRow(job_name) ==
    /\ job_name \in DOMAIN job_run_log => job_name \in DOMAIN job_run_log'
    /\ job_name \in DOMAIN job_run_log' =>
          /\ job_name \in DOMAIN job_run_log
          /\ job_run_log'[job_name] = job_run_log[job_name]

C19_GroupingFrame ==
    /\ UNCHANGED <<crypto_asset_price_daily, crypto_asset_price_hourly>>
    /\ \A a \in DOMAIN crypto_asset :
          /\ a \in DOMAIN crypto_asset'
          /\ crypto_asset'[a] = [crypto_asset[a] EXCEPT
                                    !.symbol    = crypto_asset'[a].symbol,
                                    !.name      = crypto_asset'[a].name,
                                    !.is_active = crypto_asset'[a].is_active]
    /\ \A a \in DOMAIN crypto_asset' \ DOMAIN crypto_asset :
          /\ crypto_asset'[a].last_daily_observed_at = None
          /\ crypto_asset'[a].last_hourly_observed_at = None
    /\ SameLogRow(BULK_IMPORT_JOB_NAME)
    /\ UNCHANGED <<pc, assets, idx, summary>>

C19_IngestionFrame ==
    /\ UNCHANGED <<crypto_group, crypto_asset_group, crypto_asset_group_history>>
    /\ DOMAIN crypto_asset' = DOMAIN crypto_asset
    /\ \A a \in DOMAIN crypto_asset :
          crypto_asset'[a] = [crypto_asset[a] EXCEPT
                                 !.last_daily_observed_at  = crypto_asset'[a].last_daily_observed_at,
                                 !.last_hourly_observed_at = crypto_asset'[a].last_hourly_observed_at]
    /\ SameLogRow(GROUP_SELECTOR_JOB_NAME)

\* C19 (path ownership frame): a grouping run changes no price point and no
\* watermark of any asset, and of an existing asset at most symbol, name and
\* is_active; a step of an ingestion run changes no is_active, no group, no
\* membership and no membership event; so in every interleaving of the two
\* neither overwrites what the other wrote.
C19_PathOwnership ==
    [][IF GroupingStep THEN C19_GroupingFrame ELSE C19_IngestionFrame]_vars

\* a grouping run came after step 1 of an ingestion run of bitcoin and
\* tether: it took bitcoin out of every group and added dogecoin, while
\* bitcoin, ingested in the first pass, has its price rows and watermarks,
\* and the pass of tether is still to come
C19_Witness ==
    /\ pc = "loop" /\ Len(assets) = 2 /\ idx = 2
    /\ assets[1].id = "bitcoin" /\ assets[2].id = "tether"
    /\ group_runs = 1
    /\ ~crypto_asset["bitcoin"].is_active
    /\ crypto_asset["tether"].is_active
    /\ DOGE \in DOMAIN crypto_asset
    /\ RowsOf(crypto_asset_price_hourly, "bitcoin") # {}
    /\ crypto_asset["bitcoin"].last_hourly_observed_at = T2
    /\ crypto_asset["tether"].last_hourly_observed_at = None

----------------------------------------------------------------------------
(* Properties of the two grains of one asset *)

\* the statements of one grain on their own: the INSERT of the grain's rows
\* and the UPDATE of the grain's watermark, both only for a non-empty batch
IngestDailyGrain(db, asset_id, daily_rows) ==
    IF daily_rows = <<>> THEN db
    ELSE [db EXCEPT !.daily = InsertPrices(@, asset_id, daily_rows),
                    !.asset = UpdateLastDaily(@, asset_id,
                                  daily_rows[Len(daily_rows)].observed_at)]

IngestHourlyGrain(db, asset_id, hourly_rows) ==
    IF hourly_rows = <<>> THEN db
    ELSE [db EXCEPT !.hourly = InsertPrices(@, asset_id, hourly_rows),
                    !.asset = UpdateLastHourly(@, asset_id,
                                  hourly_rows[Len(hourly_rows)].observed_at)]

\* between before and after, only the daily rows of the asset and its
\* last_daily_observed_at may differ
OnlyDailyChanged(before, after, asset_id) ==
    /\ after.hourly = before.hourly
    /\ {x \in after.daily : x.asset_id # asset_id} = {x \in before.daily : x.asset_id # asset_id}
    /\ DOMAIN after.asset = DOMAIN before.asset
    /\ \A a \in DOMAIN before.asset :
          after.asset[a] =
              IF a = asset_id
              THEN [before.asset[a] EXCEPT !.last_daily_observed_at =
                                               after.asset[a].last_daily_observed_at]
              ELSE before.asset[a]

OnlyHourlyChanged(before, after, asset_id) ==
    /\ after.daily = before.daily
    /\ {x \in after.hourly : x.asset_id # asset_id} = {x \in before.hourly : x.asset_id # asset_id}
    /\ DOMAIN after.asset = DOMAIN before.asset
    /\ \A a \in DOMAIN before.asset :
          after.asset[a] =
              IF a = asset_id
              THEN [before.asset[a] EXCEPT !.last_hourly_observed_at =
                                               after.asset[a].last_hourly_observed_at]
              ELSE before.asset[a]

C20_Step(env) ==
    \A asset \in {assets[i] : i \in DOMAIN assets} :
        (Ingesting(asset) /\ IngestAsset(env)) =>
            \A res \in {AssetTx(asset, env)} :
                (~res.raised /\ ~res.aborted) =>
                    \A daily \in {DailyBatch(asset, env)},
                       hourly \in {IF res.counts.hourly_error = NoError
                                   THEN HourlyBatch(asset, env) ELSE <<>>} :
                        \A d \in {IngestDailyGrain(CurrentDb, asset.id, daily)},
                           h \in {IngestHourlyGrain(CurrentDb, asset.id, hourly)} :
                            \A dh \in {IngestHourlyGrain(d, asset.id, hourly)},
                               hd \in {IngestDailyGrain(h, asset.id, daily)} :
                                /\ OnlyDailyChanged(CurrentDb, d, asset.id)
                                /\ OnlyDailyChanged(h, hd, asset.id)
                                /\ OnlyHourlyChanged(CurrentDb, h, asset.id)
                                /\ OnlyHourlyChanged(d, dh, asset.id)
                                /\ dh = hd
                                /\ NextDb = dh

\* C20 (grain independence): in a committed pass, the daily grain changes
\* only the asset's daily rows and last_daily_observed_at, the hourly grain
\* only its hourly rows and last_hourly_observed_at, and the tables are the
\* same whether the daily or the hourly grain is applied first: they are
\* the tables the pass leaves.
C20_GrainIndependence == [][C20_Step(last_env')]_vars

\* a second run found a daily and an hourly watermark and ingested both
\* grains in one pass: new rows in both tables, each watermark moved to its
\* own batch's last instant
C20_Witness ==
    /\ pc = "loop" /\ idx = 2
    /\ assets[1].last_daily_observed_at = T1
    /\ assets[1].last_hourly_observed_at = T2
    /\ assets[1].coingecko_id \in DOMAIN summary.per_asset_rows
    /\ summary.per_asset_rows[assets[1].coingecko_id].daily_rows = 1
    /\ summary.per_asset_rows[assets[1].coingecko_id].hourly_rows = 2
    /\ crypto_asset[assets[1].id].last_daily_observed_at = T3
    /\ crypto_asset[assets[1].id].last_hourly_observed_at = T3
    /\ Cardinality(RowsOf(crypto_asset_price_daily, assets[1].id)) = 2

----------------------------------------------------------------------------
(* Properties of the lookback *)

\* days brought into 1..cap
Clamped(days, cap) == IF days < 1 THEN 1 ELSE IF days > cap THEN cap ELSE days

\* C21 (lookback cap): the lookback of a daily call is the days value it was
\* given brought into 1..BULK_DAYS_BACK, the lookback of an hourly call
\* the days value it was given brought into 1..HOURLY_MAX_DAYS_BACK, each
\* whatever the other call was given and whatever the watermark is.
C21_LookbackCap ==
    (call.fn = "fetch_series" /\ call.done) =>
        /\ call.daily \in 1..BULK_DAYS_BACK
        /\ call.hourly \in 1..HOURLY_MAX_DAYS_BACK
        /\ call.daily = Clamped(call.days_for_daily, BULK_DAYS_BACK)
        /\ call.hourly = Clamped(call.days_for_hourly, HOURLY_MAX_DAYS_BACK)

\* the caller passed 0 days for the daily call and 365 for the hourly one:
\* the requests carry 1 and 90
C21_Witness ==
    /\ call.fn = "fetch_series" /\ call.done /\ ~call.sized
    /\ call.days_for_daily = 0 /\ call.daily = 1
    /\ call.days_for_hourly = BULK_DAYS_BACK /\ call.hourly = HOURLY_MAX_DAYS_BACK

----------------------------------------------------------------------------
(* Properties of the merge *)

\* the length of the shortest of the three sequences of the payload
ShortestLen ==
    Min(Len(call.payload.prices),
        Min(Len(call.payload.market_caps), Len(call.payload.total_volumes)))

\* rows is the sequence of the first n merged samples in some order
IsReorderingOfSamples(rows, n) ==
    /\ Len(rows) = n
    /\ \E f \in [1..n -> 1..n] :
          /\ \A i, j \in 1..n : i # j => f[i] # f[j]
          /\ \A i \in 1..n : rows[f[i]] = SamplePoint(i)

\* C22 (positional merge): the normalizer output before the daily collapse
\* has exactly min(p, m, v) points; they are, for each i up to that number,
\* the point with the instant and price of the i-th price entry and the
\* market cap and volume of the i-th entries of the other two sequences,
\* whatever instants those carry; and the output is sorted ascending.
C22_PositionalMerge ==
    Normalized =>
        /\ IsReorderingOfSamples(call.hourly, ShortestLen)
        /\ Ascending(call.hourly)

\* three prices, the second earlier than the first, two market caps and
\* three volumes: two points, the second sample first, each with the market
\* cap and volume of its own place
C22_Witness ==
    /\ Normalized
    /\ Len(call.payload.prices) = 3
    /\ Len(call.payload.market_caps) = 2
    /\ Len(call.payload.total_volumes) = 3
    /\ call.payload.prices[1][1] > call.payload.prices[2][1]
    /\ call.payload.market_caps[1][1] # call.payload.prices[1][1]
    /\ Len(call.hourly) = 2
    /\ call.hourly[1].price = 2 /\ call.hourly[1].market_cap_usd = 2000
    /\ call.hourly[1].volume_24h_usd = None
    /\ call.hourly[2].price = 1 /\ call.hourly[2].market_cap_usd = 1000
    /\ call.hourly[2].volume_24h_usd = 10

----------------------------------------------------------------------------
(* Properties of the watermarks against the store *)

\* the watermark is null when the asset has no row in the table, and else
\* the latest observed_at of its rows
MatchesStore(watermark, table, asset_id) ==
    \A rows \in {RowsOf(table, asset_id)} :
        IF rows = {} THEN watermark = None
        ELSE /\ watermark # None
             /\ \E x \in rows : x.observed_at = watermark
             /\ \A x \in rows : x.observed_at <= watermark

\* C23 (watermark/store consistency): in every state reached from the empty
\* price tables and null watermarks, for every asset and grain the watermark
\* is null exactly when no point of the asset is stored for the grain, and
\* else it is the maximum observed_at of the asset's stored points; and
\* every stored point belongs to an asset of the registry.
C23_WatermarkMatchesStore ==
    /\ \A a \in DOMAIN crypto_asset :
          /\ MatchesStore(crypto_asset[a].last_daily_observed_at,
                          crypto_asset_price_daily, a)
          /\ MatchesStore(crypto_asset[a].last_hourly_observed_at,
                          crypto_asset_price_hourly, a)
    /\ \A x \in crypto_asset_price_daily \cup crypto_asset_price_hourly :
          x.asset_id \in DOMAIN crypto_asset

\* a run of two assets: the first was rolled back after a failing hourly
\* watermark update and has no row and no watermark; the second met a
\* failing hourly call and has its daily rows of T1 and T2 with the daily
\* watermark at T2, no hourly row and no hourly watermark
C23_Witness ==
    /\ pc = "loop" /\ Len(assets) = 2 /\ idx = 3
    /\ assets[1].coingecko_id \in DOMAIN summary.errors
    /\ summary.errors[assets[1].coingecko_id] = "hourly update failed"
    /\ crypto_asset[assets[1].id].last_daily_observed_at = None
    /\ crypto_asset[assets[1].id].last_hourly_observed_at = None
    /\ assets[2].coingecko_id \in DOMAIN summary.per_asset_rows
    /\ summary.per_asset_rows[assets[2].coingecko_id].hourly_error = "hourly fetch failed"
    /\ summary.per_asset_rows[assets[2].coingecko_id].daily_rows = 2
    /\ crypto_asset[assets[2].id].last_daily_observed_at = T2
    /\ crypto_asset[assets[2].id].last_hourly_observed_at = None
    /\ RowsOf(crypto_asset_price_hourly, assets[2].id) = {}

----------------------------------------------------------------------------
(* Properties of the ledger *)

\* the events of the pair alternate JOINED, LEFT, JOINED, ... in ledger
\* order: an event with an even number of earlier events of the pair is a
\* JOINED, the others are LEFT
Alternates(events, asset_id, group_id) ==
    \A at_ \in {EventsOf(events, asset_id, group_id)} :
        \A i \in at_ :
            events[i].event_type =
                IF Cardinality({j \in at_ : j < i}) % 2 = 0 THEN "JOINED" ELSE "LEFT"

\* the most recent event of the pair is a JOINED
LastIsJoined(events, asset_id, group_id) ==
    \E i \in EventsOf(events, asset_id, group_id) :
        /\ events[i].event_type = "JOINED"
        /\ \A j \in EventsOf(events, asset_id, group_id) : j <= i

\* C24 (ledger consistency): in every state reached from the empty
\* membership and the empty ledger by grouping runs, committed or rolled
\* back, the events of every (asset, group) pair alternate JOINED, LEFT,
\* JOINED, ... beginning with JOINED, and the asset is a member of the
\* group exactly when the most recent event of the pair is JOINED.
C24_LedgerConsistency ==
    /\ \A i \in DOMAIN crypto_asset_group_history :
          /\ crypto_asset_group_history[i].asset_id \in DOMAIN crypto_asset
          /\ crypto_asset_group_history[i].group_id \in GroupTags
    /\ \A m \in crypto_asset_group :
          m.asset_id \in DOMAIN crypto_asset /\ m.group_id \in GroupTags
    /\ \A a \in DOMAIN crypto_asset, g \in GroupTags :
          /\ Alternates(crypto_asset_group_history, a, g)
          /\ [asset_id |-> a, group_id |-> g] \in crypto_asset_group
                <=> LastIsJoined(crypto_asset_group_history, a, g)

\* four runs: bitcoin joined TOP15, left it, joined it again, and the last
\* run was rolled back: three events JOINED, LEFT, JOINED for the pair, and
\* bitcoin is a member
C24_Witness ==
    /\ group_runs = 4
    /\ last_markets.fault = "fetch_meme"
    /\ [asset_id |-> "bitcoin", group_id |-> TOP15_TAG] \in crypto_asset_group
    /\ \E i, j, k \in DOMAIN crypto_asset_group_history :
          /\ i < j /\ j < k
          /\ EventsOf(crypto_asset_group_history, "bitcoin", TOP15_TAG) = {i, j, k}
          /\ crypto_asset_group_history[i].event_type = "JOINED"
          /\ crypto_asset_group_history[j].event_type = "LEFT"
          /\ crypto_asset_group_history[k].event_type = "JOINED"

----------------------------------------------------------------------------
(* Properties of the daily price table *)

\* C25 (one stored daily point per date): the daily price table holds at
\* most one point for an asset, a currency and a UTC calendar date.
C25_OneDailyPointPerDate ==
    \A x, y \in crypto_asset_price_daily :
        (/\ x.asset_id = y.asset_id
         /\ x.currency_code = y.currency_code
         /\ DateOf(x.observed_at) = DateOf(y.observed_at)) => x = y

====
